---- MODULE Spec2Model ----
(***************************************************************************)
(* Model of the jiminy simulation kernel: the telemetry data registry, the *)
(* telemetry recorder with its chunked binary log and log parser, and the  *)
(* step adjustment of the Dormand-Prince stepper.                          *)
(*                                                                         *)
(* Bytes are naturals in 0..255, strings are sequences of character codes, *)
(* a 64-bit word is a sequence of 8 bytes (little-endian).                 *)
(***************************************************************************)
EXTENDS Integers, Sequences, FiniteSets

VARIABLES
    \* ---- TelemetryData
    constantsRegistry_,       \* sequence of [key, value] (strings)
    integersRegistry_,        \* sequence of [name, value] (value: integer)
    floatsRegistry_,          \* sequence of [name, value] (value: 8-byte word)
    isRegisteringAvailable_,  \* registration window open
    \* ---- TelemetryRecorder
    isInitialized_,
    flows_,                   \* sequence of MemoryDevice
    recordedBytes_,
    recordedBytesLimits_,
    recordedBytesDataLine_,
    headerSize_,
    integerSectionSize_,
    floatSectionSize_,
    timeUnitInv_,             \* rational <<num, den>>, per microsecond
    minBufferSize,            \* value of TELEMETRY_MIN_BUFFER_SIZE in this build
    \* ---- callers of the telemetry
    snapshots,                \* rows flushed since the last successful initialize
    \* ---- RungeKuttaDOPRIStepper
    tolRel_,
    tolAbs_,
    stateIncrement_,          \* sum of dt * e[i] * ki_[i] over the stages
    \* ---- the integration loop calling the stepper
    initialState,             \* state at the start of the step
    solution,                 \* candidate solution of the step
    dt,
    stage,                    \* "fresh", "staged" (ki_ computed), "adjusted"
    lastStep,                 \* outcome of the last adjustStep
    nbSteps,
    \* a log file read back
    filename,                 \* the file handed to readLog: how it was made, its bytes
    readLogResult,            \* the code and the log data readLog returned
    \* DistanceConstraint and the model it is attached to
    model_,                   \* the weak handle: "unset", "alive" or "expired"
    isAttached_,
    frameNames_,
    frameIndices_,
    distanceRef_,
    jacobian_,
    drift_,
    kp_,
    kd_,
    pncData,                  \* the kinematic data of the model
    constraintCall,           \* the last call on the constraint, and its code
    referenceConfigured,      \* setReferenceDistance succeeded since construction
    \* AbstractController
    isTelemetryConfigured_,
    registeredConstants_,
    registerConstantCode      \* the code the last registerConstant returned

telemetryVars == <<constantsRegistry_, integersRegistry_, floatsRegistry_,
                   isRegisteringAvailable_, isInitialized_,
                   flows_, recordedBytes_, recordedBytesLimits_,
                   recordedBytesDataLine_, headerSize_, integerSectionSize_,
                   floatSectionSize_, timeUnitInv_, minBufferSize,
                   snapshots>>

stepperVars == <<tolRel_, tolAbs_, stateIncrement_, initialState, solution, dt,
                 stage, lastStep, nbSteps>>

readerVars == <<filename, readLogResult>>

constraintVars == <<model_, isAttached_, frameNames_, frameIndices_,
                    distanceRef_, jacobian_, drift_, kp_, kd_, pncData,
                    constraintCall, referenceConfigured>>

controllerVars == <<isTelemetryConfigured_, registeredConstants_,
                    registerConstantCode>>

vars == <<telemetryVars, stepperVars, readerVars, constraintVars, controllerVars>>

-----------------------------------------------------------------------------
(* Bounds of the model *)

\* The two builds of TELEMETRY_MIN_BUFFER_SIZE that are explored: one smaller
\* than the largest row, one that leaves room for rows after the header.
SmallBufferSize == 47

LargeBufferSize == 260

\* Largest number of adjustStep calls in a behaviour.
MaxSteps == 2

\* Number of rows of the log files that are read back.
RecordedRows == 2

-----------------------------------------------------------------------------
(* Program constants *)

SizeOfInt64 == 8

SizeOfInt32 == 4

\* -ceil(log10(STEPPER_MIN_TIMESTEP)), the precision of the time unit constant
TimeUnitPrecision == 10

TELEMETRY_VERSION == 1

START_CONSTANTS ==
    <<83, 84, 65, 82, 84, 95, 67, 79, 78, 83, 84, 65, 78, 84, 83>>  \* "START_CONSTANTS"

START_COLUMNS ==
    <<83, 84, 65, 82, 84, 95, 67, 79, 76, 85, 77, 78, 83>>  \* "START_COLUMNS"

START_LINE_TOKEN ==
    <<83, 84, 65, 82, 84, 95, 76, 73, 78, 69, 95, 84, 79, 75, 69, 78>>  \* "START_LINE_TOKEN"

START_DATA ==
    <<83, 84, 65, 82, 84, 95, 68, 65, 84, 65>>  \* "START_DATA"

TELEMETRY_CONSTANT_DELIMITER == <<61>>  \* "="

TIME_UNIT ==
    <<71, 108, 111, 98, 97, 108, 46, 84, 105, 109, 101, 46, 85, 110, 105, 116>>  \* "Global.Time.Unit"

NUM_INTS ==
    <<78, 117, 109, 46, 73, 110, 116, 46, 69, 110, 116, 114, 105, 101, 115>>  \* "Num.Int.Entries"

NUM_FLOATS ==
    <<78, 117, 109, 46, 70, 108, 111, 97, 116, 46, 69, 110, 116, 114, 105, 101, 115>>  \* "Num.Float.Entries"

GLOBAL_TIME ==
    <<71, 108, 111, 98, 97, 108, 46, 84, 105, 109, 101>>  \* "Global.Time"

\* hresult_t
SUCCESS == "SUCCESS"
ERROR_GENERIC == "ERROR_GENERIC"
ERROR_BAD_INPUT == "ERROR_BAD_INPUT"
ERROR_INIT_FAILED == "ERROR_INIT_FAILED"

\* The call did not return: the process was ended by a fault.
ABORTED == "ABORTED"

-----------------------------------------------------------------------------
(* Inputs *)

NameAX == <<97, 46, 120>>        \* "a.x"
NameBYY == <<98, 46, 121, 121>>  \* "b.yy"

\* Names registered as integer signals and as float signals.
IntNames == {NameAX, NameBYY}
FloatNames == {NameAX}

\* The value a sender writes through the slot handed out for `name`: an
\* integer, and the IEEE-754 word of a float.
IntSample(name) == -Len(name)
FloatSample(name) == <<0, 0, 0, 0, 0, 0, 237 + Len(name), 63>>   \* "a.x": 1.0

\* Time units, m * 10^-k seconds.
TimeUnits == {[m |-> 1, k |-> 3], [m |-> 2, k |-> 3]}

\* Timestamps handed to flushDataSnapshot, in microseconds; they are handed
\* in increasing order.
Timestamps == {1500, 2600}

-----------------------------------------------------------------------------
(* Bytes, words and strings *)

Min(a, b) == IF a < b THEN a ELSE b
Max(a, b) == IF a < b THEN b ELSE a

RECURSIVE Pow10(_)
Pow10(n) == IF n = 0 THEN 1 ELSE 10 * Pow10(n - 1)

\* The n low bytes of v, little-endian, two's complement.
RECURSIVE LittleEndian(_, _)
LittleEndian(v, n) ==
    IF n = 0 THEN <<>> ELSE <<v % 256>> \o LittleEndian(v \div 256, n - 1)

Int64Word(v) == LittleEndian(v, SizeOfInt64)
Int32Word(v) == LittleEndian(v, SizeOfInt32)

\* The integer held by a little-endian two's complement word.
RECURSIVE WordValueFrom(_, _)
WordValueFrom(w, i) ==
    IF i = Len(w)
    THEN (IF w[i] >= 128 THEN w[i] - 256 ELSE w[i])
    ELSE w[i] + 256 * WordValueFrom(w, i + 1)

WordValue(w) == WordValueFrom(w, 1)

ZeroWord == [i \in 1..SizeOfInt64 |-> 0]

Zeros(n) == [i \in 1..n |-> 0]

\* s[from .. to-1] with 1-based `from`, empty when the range is empty.
Slice(s, from, to) == [i \in 1..(IF to > from THEN to - from ELSE 0) |-> s[from + i - 1]]

RECURSIVE Concat(_)
Concat(ss) == IF ss = <<>> THEN <<>> ELSE Head(ss) \o Concat(Tail(ss))

\* Decimal digits of a natural (std::to_string).
RECURSIVE to_string(_)
to_string(n) ==
    IF n < 10 THEN <<48 + n>> ELSE to_string(n \div 10) \o <<48 + (n % 10)>>

\* std::search: smallest p >= from with needle at s[p..], Len(s)+1 when absent
\* (positions are 1-based, `last` is one past the searched range).
IsAt(s, p, needle) ==
    /\ p + Len(needle) - 1 <= Len(s)
    /\ \A j \in 1..Len(needle) : s[p + j - 1] = needle[j]

RECURSIVE Search(_, _, _, _)
Search(s, from, last, needle) ==
    IF from + Len(needle) > last THEN last
    ELSE IF IsAt(s, from, needle) THEN from
    ELSE Search(s, from + 1, last, needle)

-----------------------------------------------------------------------------
(* TelemetryData *)

\* Variant of the lookup that never finds an entry.
FindEntryNever(registry, name) == 0

\* Index of `name` in a registry (std::find_if), 0 when absent.
FindEntry(registry, name) ==
    IF \E i \in 1..Len(registry) : registry[i].name = name
    THEN CHOOSE i \in 1..Len(registry) :
            /\ registry[i].name = name
            /\ \A j \in 1..(i - 1) : registry[j].name # name
    ELSE 0

\* Variant of registerVariable that registers an unknown name even when the
\* registration window is closed.
RegisterVariableUnguarded(registry, available, name, default) ==
    LET found == IF \E i \in 1..Len(registry) : registry[i].name = name
                 THEN CHOOSE i \in 1..Len(registry) : registry[i].name = name
                 ELSE 0
    IN  IF found # 0
        THEN [registry |-> registry, code |-> SUCCESS, slot |-> found]
        ELSE [registry |-> Append(registry, [name |-> name, value |-> default]),
              code |-> SUCCESS, slot |-> Len(registry) + 1]

\* TelemetryData::registerVariable<T>: the registry after the call, the code
\* returned and the slot written to positionInBuffer (0: not written).
RegisterVariable(registry, available, name, default) ==
    LET found == FindEntry(registry, name) IN
    IF found # 0
    THEN [registry |-> registry, code |-> SUCCESS, slot |-> found]
    ELSE IF ~available
    THEN [registry |-> registry, code |-> ERROR_GENERIC, slot |-> 0]
    ELSE [registry |-> Append(registry, [name |-> name, value |-> default]),
          code |-> SUCCESS, slot |-> Len(registry) + 1]

\* TelemetryData::registerConstant: the constants after the call and the code.
FindConstant(constants, key) ==
    \E i \in 1..Len(constants) : constants[i].key = key

RegisterConstant(constants, available, key, value) ==
    IF ~available
    THEN [constants |-> constants, code |-> ERROR_GENERIC]
    ELSE IF FindConstant(constants, key)
    THEN [constants |-> constants, code |-> ERROR_BAD_INPUT]
    ELSE [constants |-> Append(constants, [key |-> key, value |-> value]),
          code |-> SUCCESS]

\* One NUL-terminated header line.
HeaderLine(parts) == Concat(parts) \o <<0>>

ConstantLine(key, value) ==
    HeaderLine(<<START_LINE_TOKEN, key, TELEMETRY_CONSTANT_DELIMITER, value>>)

\* TelemetryData::formatHeader: the bytes of the header.
FormatHeader(constants, integers, floats) ==
    Int32Word(TELEMETRY_VERSION)
    \o HeaderLine(<<START_CONSTANTS>>)
    \o Concat([i \in 1..Len(constants) |->
                  ConstantLine(constants[i].key, constants[i].value)])
    \o ConstantLine(NUM_INTS, to_string(Len(integers) + 1))   \* + Global.Time
    \o ConstantLine(NUM_FLOATS, to_string(Len(floats)))
    \o HeaderLine(<<START_COLUMNS>>)
    \o HeaderLine(<<GLOBAL_TIME>>)
    \o Concat([i \in 1..Len(integers) |-> HeaderLine(<<integers[i].name>>)])
    \o Concat([i \in 1..Len(floats) |-> HeaderLine(<<floats[i].name>>)])
    \o HeaderLine(<<START_DATA>>)

-----------------------------------------------------------------------------
(* MemoryDevice *)

\* A chunk: a buffer of `size` bytes, zero at construction, of which `data`
\* is the prefix written so far; a cursor; the open flag.
NewDevice(size) == [data |-> <<>>, size |-> size, currentPos |-> 0, isOpen |-> FALSE]

DeviceOpen(dev) == [dev EXCEPT !.isOpen = TRUE, !.currentPos = 0]

DeviceClose(dev) == [dev EXCEPT !.isOpen = FALSE]

BytesAvailable(dev) == dev.size - dev.currentPos

\* The byte at offset i (0-based) of the buffer.
ByteAt(dev, i) == IF i < Len(dev.data) THEN dev.data[i + 1] ELSE 0

\* write: no more than the available bytes are written.
DeviceWrite(dev, bytes) ==
    LET toWrite == Min(Len(bytes), BytesAvailable(dev))
        end == Max(Len(dev.data), dev.currentPos + toWrite)
    IN  [dev EXCEPT
            !.data = [i \in 1..end |->
                        IF i > dev.currentPos /\ i <= dev.currentPos + toWrite
                        THEN bytes[i - dev.currentPos]
                        ELSE ByteAt(dev, i - 1)],
            !.currentPos = dev.currentPos + toWrite]

\* readData of n bytes at cursor pos: the bytes obtained (fewer when the
\* buffer ends first).
ReadData(dev, pos, n) ==
    [i \in 1..(Min(pos + n, dev.size) - Min(pos, dev.size)) |-> ByteAt(dev, pos + i - 1)]

\* The flows with the last one closed (flows_.back().close()).
CloseLast(flows) ==
    IF flows = <<>> THEN flows
    ELSE [flows EXCEPT ![Len(flows)] = DeviceClose(flows[Len(flows)])]

\* A file opened for reading, as a device.
FileDevice(bytes) ==
    [data |-> bytes, size |-> Len(bytes), currentPos |-> 0, isOpen |-> TRUE]

-----------------------------------------------------------------------------
(* TelemetryRecorder: chunks and rows *)

\* 1.0 / timeUnit for timeUnit = m * 10^-k seconds, per microsecond.
TimeUnitInverse(timeUnit) == <<Pow10(timeUnit.k), timeUnit.m * Pow10(6)>>

\* static_cast<int64_t>(std::round(timestamp * timeUnitInv)), timestamp >= 0:
\* std::round rounds half away from zero.
QuantizedTime(timestamp, timeUnitInv) ==
    (2 * timestamp * timeUnitInv[1] + timeUnitInv[2]) \div (2 * timeUnitInv[2])

\* The time unit written as a constant: std::scientific with
\* std::setprecision(TimeUnitPrecision), e.g. "1.0000000000e-03".
FormatTimeUnit(timeUnit) ==
    <<48 + timeUnit.m, 46>> \o [i \in 1..TimeUnitPrecision |-> 48]
    \o <<101, 45>>
    \o (IF timeUnit.k < 10 THEN <<48>> ELSE <<>>) \o to_string(timeUnit.k)

SectionSize(registry) == SizeOfInt64 * Len(registry)

\* recordedBytesDataLine_ as computed by initialize.
DataLineSize(integerSectionSize, floatSectionSize) ==
    integerSectionSize + floatSectionSize + Len(START_LINE_TOKEN) + SizeOfInt64

\* createNewChunk: the number of rows the new chunk is sized for.
MaxRecordedDataLines(isHeaderThere, headerSize, dataLine, minSize) ==
    LET maxBufferSize == Max(minSize, isHeaderThere * headerSize) IN
    (maxBufferSize - isHeaderThere * headerSize) \div dataLine

\* Variant of the capacity that takes the whole buffer, not a whole number
\* of rows.
NewChunkLimitsUnrounded(isHeaderThere, headerSize, dataLine, minSize) ==
    Max(minSize, isHeaderThere * headerSize)

\* createNewChunk: the capacity of the new chunk.
NewChunkLimits(isHeaderThere, headerSize, dataLine, minSize) ==
    isHeaderThere * headerSize
    + MaxRecordedDataLines(isHeaderThere, headerSize, dataLine, minSize) * dataLine

\* createNewChunk: flows_, recordedBytesLimits_ and recordedBytes_ afterwards.
CreateNewChunk(flows, headerSize, dataLine, minSize) ==
    LET isHeaderThere == IF flows = <<>> THEN 1 ELSE 0
        limits == NewChunkLimits(isHeaderThere, headerSize, dataLine, minSize)
    IN  [flows |-> Append(CloseLast(flows), DeviceOpen(NewDevice(limits))),
         recordedBytesLimits |-> limits,
         recordedBytes |-> 0]

\* Variant of the row that emits the integers last registered first.
DataLineWritesReversed(timestamp, timeUnitInv, integers, floats) ==
    <<START_LINE_TOKEN, Int64Word(QuantizedTime(timestamp, timeUnitInv))>>
    \o [i \in 1..Len(integers) |-> Int64Word(integers[Len(integers) + 1 - i].value)]
    \o [i \in 1..Len(floats) |-> floats[i].value]

\* The successive writes of one flushDataSnapshot: token, time, integers, floats.
DataLineWrites(timestamp, timeUnitInv, integers, floats) ==
    <<START_LINE_TOKEN, Int64Word(QuantizedTime(timestamp, timeUnitInv))>>
    \o [i \in 1..Len(integers) |-> Int64Word(integers[i].value)]
    \o [i \in 1..Len(floats) |-> floats[i].value]

RECURSIVE WriteAll(_, _)
WriteAll(dev, writes) ==
    IF writes = <<>> THEN dev
    ELSE WriteAll(DeviceWrite(dev, Head(writes)), Tail(writes))

\* flushDataSnapshot: whether it rolls to a new chunk.
IsChunkFull(recordedBytes, limits) == recordedBytes = limits

\* flushDataSnapshot: flows_, recordedBytesLimits_ and recordedBytes_ afterwards.
FlushDataSnapshot(flows, recordedBytes, limits, headerSize, dataLine, minSize, timestamp, timeUnitInv, integers, floats) ==
    LET chunk == IF IsChunkFull(recordedBytes, limits)
                 THEN CreateNewChunk(flows, headerSize, dataLine, minSize)
                 ELSE [flows |-> flows, recordedBytesLimits |-> limits,
                       recordedBytes |-> recordedBytes]
        last == Len(chunk.flows)
    IN  [flows |-> [chunk.flows EXCEPT ![last] =
                        WriteAll(chunk.flows[last],
                                 DataLineWrites(timestamp, timeUnitInv, integers, floats))],
         recordedBytesLimits |-> chunk.recordedBytesLimits,
         recordedBytes |-> chunk.recordedBytes + dataLine]

\* The row a flushDataSnapshot is meant to record.
Snapshot(timestamp, timeUnitInv, integers, floats) ==
    [timestamp |-> timestamp,
     time |-> Int64Word(QuantizedTime(timestamp, timeUnitInv)),
     ints |-> [i \in 1..Len(integers) |-> Int64Word(integers[i].value)],
     floats |-> [i \in 1..Len(floats) |-> floats[i].value]]

\* writeLog: the bytes of the file, every chunk up to its cursor.
WriteLogBytes(flows) ==
    Concat([i \in 1..Len(flows) |-> ReadData(flows[i], 0, flows[i].currentPos)])

-----------------------------------------------------------------------------
(* Log parser *)

\* A byte whose value is indeterminate (memory that no read has filled).
Indeterminate == -1

EmptyLogData ==
    [version |-> 0, constants |-> <<>>, fieldnames |-> <<>>,
     timeUnit |-> [m |-> 0, k |-> 0],
     timestamps |-> <<>>, intData |-> <<>>, floatData |-> <<>>]

\* The destination of a readData of n bytes: what was not read is indeterminate.
Filled(bytes, n) == bytes \o [i \in 1..(n - Len(bytes)) |-> Indeterminate]

\* A section cut into 64-bit words.
Words(section) ==
    [i \in 1..(Len(section) \div SizeOfInt64) |->
        Slice(section, (i - 1) * SizeOfInt64 + 1, i * SizeOfInt64 + 1)]

\* The constants of the header buffer from posHeaderIt on; `next` is the
\* position of the column names.
RECURSIVE ParseConstants(_, _, _)
ParseConstants(hb, posHeaderIt, acc) ==
    LET end == Len(hb) + 1
        nextLine == Search(hb, posHeaderIt, end, START_LINE_TOKEN)
        isLastConstant == nextLine = end
        posHeaderNextIt == IF isLastConstant
                           THEN Search(hb, posHeaderIt, end, START_COLUMNS)
                           ELSE nextLine
        posDelimiterIt == Search(hb, posHeaderIt, posHeaderNextIt,
                                 TELEMETRY_CONSTANT_DELIMITER)
        key == Slice(hb, posHeaderIt, posDelimiterIt)
        value == Slice(hb, posDelimiterIt + Len(TELEMETRY_CONSTANT_DELIMITER),
                       posHeaderNextIt - 1)   \* last char is NUL
        constants == Append(acc, [key |-> key, value |-> value])
    IN  IF isLastConstant
        THEN [constants |-> constants,
              next |-> posHeaderNextIt + Len(START_COLUMNS) + 1]
        ELSE ParseConstants(hb, posHeaderNextIt + Len(START_LINE_TOKEN), constants)

\* The NUL-terminated string at position pos of the header buffer (the
\* std::string constructor reads till the next NUL); `closed` is FALSE when
\* the buffer ends before the NUL.
NulString(hb, pos) ==
    LET nul == Search(hb, pos, Len(hb) + 1, <<0>>) IN
    [str |-> Slice(hb, pos, nul), closed |-> pos <= Len(hb) /\ nul <= Len(hb)]

\* The field names from position pos on, up to START_DATA.
RECURSIVE ParseFieldnames(_, _, _)
ParseFieldnames(hb, pos, acc) ==
    LET fieldname == NulString(hb, pos) IN
    IF ~fieldname.closed THEN [fieldnames |-> acc, overrun |-> TRUE]
    ELSE IF fieldname.str = START_DATA THEN [fieldnames |-> acc, overrun |-> FALSE]
    ELSE ParseFieldnames(hb, pos + Len(fieldname.str) + 1,
                         Append(acc, fieldname.str))

\* The natural written in decimal at position pos of a string (0 when no
\* digit is there).
RECURSIVE StringToNat(_, _, _)
StringToNat(str, pos, acc) ==
    IF pos > Len(str) \/ str[pos] < 48 \/ str[pos] > 57 THEN acc
    ELSE StringToNat(str, pos + 1, 10 * acc + (str[pos] - 48))

\* operator>>(double) on "d.000e-kk", as m * 10^-k; the fraction digits of
\* the strings the recorder writes are zeros.
ParseTimeUnit(value) ==
    LET e == Search(value, 1, Len(value) + 1, <<101>>) IN
    [m |-> StringToNat(value, 1, 0), k |-> StringToNat(value, e + 2, 0)]

\* The time unit of the log: the Global.Time.Unit constant, or the default
\* STEPPER_MIN_TIMESTEP.
LogTimeUnit(constants) ==
    IF \E i \in 1..Len(constants) : constants[i].key = TIME_UNIT
    THEN LET i == CHOOSE i \in 1..Len(constants) :
                     /\ constants[i].key = TIME_UNIT
                     /\ \A j \in 1..(i - 1) : constants[j].key # TIME_UNIT
         IN  ParseTimeUnit(constants[i].value)
    ELSE [m |-> 1, k |-> TimeUnitPrecision]

\* The header of the first stream: version, constants, field names, and the
\* cursor after it.
ParseHeader(dev, headerSize) ==
    LET version == WordValue(Filled(ReadData(dev, 0, SizeOfInt32), SizeOfInt32))
        pos == Min(SizeOfInt32, dev.size)
        read == ReadData(dev, pos, headerSize - pos)
        hb == read \o Zeros(headerSize - pos - Len(read))
        parsed == ParseConstants(
                      hb, 1 + Len(START_CONSTANTS) + 1 + Len(START_LINE_TOKEN), <<>>)
        names == ParseFieldnames(hb, parsed.next, <<>>)
    IN  [version |-> version,
         constants |-> parsed.constants,
         fieldnames |-> names.fieldnames,
         overrun |-> names.overrun,
         pos |-> pos + Len(read)]

\* One data line read at cursor pos (after its first byte was checked).
DataLineAt(dev, pos, integerSectionSize, floatSectionSize) ==
    LET posTime == pos + Len(START_LINE_TOKEN)
        posInt == posTime + SizeOfInt64
        posFloat == posInt + integerSectionSize
    IN  [time |-> Filled(ReadData(dev, posTime, SizeOfInt64), SizeOfInt64),
         ints |-> Words(Filled(ReadData(dev, posInt, integerSectionSize),
                               integerSectionSize)),
         floats |-> Words(Filled(ReadData(dev, posFloat, floatSectionSize),
                                 floatSectionSize))]

\* The data lines of one stream from cursor pos on: [token, time, integers,
\* floats], until the stream ends or a line does not start with the first
\* byte of START_LINE_TOKEN.
RECURSIVE ParseDataLines(_, _, _, _, _)
ParseDataLines(dev, pos, integerSectionSize, floatSectionSize, acc) ==
    IF dev.size - pos <= 0 THEN acc
    ELSE IF ByteAt(dev, pos) # START_LINE_TOKEN[1] THEN acc
    ELSE ParseDataLines(
             dev,
             Min(pos + Len(START_LINE_TOKEN) + SizeOfInt64
                     + integerSectionSize + floatSectionSize, dev.size),
             integerSectionSize, floatSectionSize,
             Append(acc, DataLineAt(dev, pos, integerSectionSize, floatSectionSize)))

\* The data lines of all the streams, the first one read from the end of the
\* header.
RECURSIVE ParseFlows(_, _, _, _, _, _)
ParseFlows(flows, i, headerPos, integerSectionSize, floatSectionSize, acc) ==
    IF i > Len(flows) THEN acc
    ELSE ParseFlows(flows, i + 1, headerPos, integerSectionSize, floatSectionSize,
                    ParseDataLines(flows[i], IF i = 1 THEN headerPos ELSE 0,
                                   integerSectionSize, floatSectionSize, acc))

\* Variant of parseLogDataRaw that accepts every version.
ParseCodeAnyVersion(flows) == SUCCESS

\* parseLogDataRaw: the code returned.
ParseCode(flows) ==
    IF flows = <<>> THEN SUCCESS
    ELSE IF WordValue(Filled(ReadData(flows[1], 0, SizeOfInt32), SizeOfInt32))
                # TELEMETRY_VERSION
    THEN ERROR_BAD_INPUT
    ELSE SUCCESS

\* parseLogDataRaw: the cursor of every stream on return; the cursor of the
\* first stream is not restored when the version is refused.
ParseCursors(flows) ==
    [i \in 1..Len(flows) |->
        IF i = 1 /\ ParseCode(flows) # SUCCESS
        THEN Min(SizeOfInt32, flows[1].size)
        ELSE flows[i].currentPos]

\* parseLogDataRaw: the log data.
ParseLogData(flows, integerSectionSize, floatSectionSize, headerSize) ==
    IF flows = <<>> \/ ParseCode(flows) # SUCCESS THEN EmptyLogData
    ELSE
    LET header == ParseHeader(flows[1], headerSize)
        lines == ParseFlows(flows, 1, header.pos, integerSectionSize,
                            floatSectionSize, <<>>)
    IN  [version |-> header.version,
         constants |-> header.constants,
         fieldnames |-> header.fieldnames,
         timeUnit |-> LogTimeUnit(header.constants),
         timestamps |-> [j \in 1..Len(lines) |-> lines[j].time],
         intData |-> [j \in 1..Len(lines) |-> lines[j].ints],
         floatData |-> [j \in 1..Len(lines) |-> lines[j].floats]]

\* getLog: parseLogDataRaw on the chunks.
GetLog(flows, integerSectionSize, floatSectionSize, headerSize) ==
    ParseLogData(flows, integerSectionSize, floatSectionSize, headerSize)

\* std::getline(file, str, NUL) at offset pos: the string, the offset after
\* it, and whether the stream is still good (the delimiter was found).
GetLine(file, pos) ==
    LET nul == Search(file, pos + 1, Len(file) + 1, <<0>>) IN
    IF pos >= Len(file) THEN [str |-> <<>>, pos |-> pos, good |-> FALSE]
    ELSE IF nul > Len(file)
    THEN [str |-> Slice(file, pos + 1, Len(file) + 1), pos |-> Len(file), good |-> FALSE]
    ELSE [str |-> Slice(file, pos + 1, nul), pos |-> nul, good |-> TRUE]

\* while (getline(...).good() && str != token): the strings read before the
\* token, the offset reached and the state of the stream.
RECURSIVE ReadUntil(_, _, _, _)
ReadUntil(file, pos, token, acc) ==
    LET line == GetLine(file, pos) IN
    IF ~line.good THEN [lines |-> acc, pos |-> line.pos, good |-> FALSE]
    ELSE IF line.str = token THEN [lines |-> acc, pos |-> line.pos, good |-> TRUE]
    ELSE ReadUntil(file, line.pos, token, Append(acc, line.str))

\* std::stoi of what follows the first delimiter of a header line.
EntryCount(line) ==
    LET delimiter == Search(line, 1, Len(line) + 1, TELEMETRY_CONSTANT_DELIMITER)
    IN  StringToNat(line, delimiter + 1, 0)

\* No file of that name can be opened.
NoFile == <<-1>>

\* readLog: the header as the stream reader sees it: the constant lines, the
\* offset after START_DATA, and whether the stream is still good there.
ReadLogHeader(file) ==
    LET start == ReadUntil(file, SizeOfInt32, START_CONSTANTS, <<>>)
        constants == IF start.good
                     THEN ReadUntil(file, start.pos, START_COLUMNS, <<>>)
                     ELSE [lines |-> <<>>, pos |-> start.pos, good |-> FALSE]
        columns == IF constants.good
                   THEN ReadUntil(file, constants.pos, START_DATA, <<>>)
                   ELSE [lines |-> <<>>, pos |-> constants.pos, good |-> FALSE]
    IN  [headerBuffer |-> constants.lines, pos |-> columns.pos, good |-> columns.good]

\* readLog: the code returned.
ReadLogCode(file) ==
    IF file = NoFile THEN ERROR_BAD_INPUT
    ELSE IF ~ReadLogHeader(file).good THEN ERROR_BAD_INPUT
    ELSE ParseCode(<<FileDevice(file)>>)

\* Variant of readLog that takes Num.Int.Entries as the number of integer
\* signals, the time column included.
ReadLogCountingTime(file) ==
    LET header == ReadLogHeader(file)
        code == IF file = NoFile \/ ~header.good THEN ERROR_BAD_INPUT
                ELSE ParseCode(<<FileDevice(file)>>)
        headerBuffer == header.headerBuffer
        NumIntEntries == EntryCount(headerBuffer[Len(headerBuffer) - 1])
        NumFloatEntries == EntryCount(headerBuffer[Len(headerBuffer)])
    IN  [code |-> code,
         logData |-> IF code # SUCCESS THEN EmptyLogData
                     ELSE ParseLogData(<<FileDevice(file)>>,
                                       NumIntEntries * SizeOfInt64,
                                       NumFloatEntries * SizeOfInt64,
                                       header.pos)]

\* readLog: the code returned and the log data read from the file.
ReadLog(file) ==
    LET header == ReadLogHeader(file)
        code == ReadLogCode(file)
        headerBuffer == header.headerBuffer
        NumIntEntries == EntryCount(headerBuffer[Len(headerBuffer) - 1])
        NumFloatEntries == EntryCount(headerBuffer[Len(headerBuffer)])
        \* parseLogDataRaw receives the sizes by value: each is computed once.
        parsed == {ParseLogData(<<device>>, integerSectionSize, floatSectionSize,
                                headerSize) :
                      device \in {FileDevice(file)},
                      integerSectionSize \in {(NumIntEntries - 1) * SizeOfInt64},
                      floatSectionSize \in {NumFloatEntries * SizeOfInt64},
                      headerSize \in {header.pos}}
    IN  [code |-> code,
         logData |-> IF code # SUCCESS THEN EmptyLogData
                     ELSE CHOOSE logData \in parsed : TRUE]

-----------------------------------------------------------------------------
(* Operations of the telemetry *)

\* TelemetryData::registerVariable<int64_t>(name, positionInBuffer)
RegisterVariableInt(name) ==
    LET res == RegisterVariable(integersRegistry_, isRegisteringAvailable_, name, 0) IN
    /\ integersRegistry_' = res.registry
    /\ UNCHANGED <<constantsRegistry_, floatsRegistry_, isRegisteringAvailable_,
                   isInitialized_, flows_, recordedBytes_, recordedBytesLimits_,
                   recordedBytesDataLine_, headerSize_, integerSectionSize_,
                   floatSectionSize_, timeUnitInv_, minBufferSize, snapshots>>

\* TelemetryData::registerVariable<float64_t>(name, positionInBuffer)
RegisterVariableFloat(name) ==
    LET res == RegisterVariable(floatsRegistry_, isRegisteringAvailable_, name, ZeroWord) IN
    /\ floatsRegistry_' = res.registry
    /\ UNCHANGED <<constantsRegistry_, integersRegistry_, isRegisteringAvailable_,
                   isInitialized_, flows_, recordedBytes_, recordedBytesLimits_,
                   recordedBytesDataLine_, headerSize_, integerSectionSize_,
                   floatSectionSize_, timeUnitInv_, minBufferSize, snapshots>>

\* The registry after the senders wrote their sample through every slot
\* handed out (*positionInBuffer = value).
SampledInts(registry) ==
    [slot \in 1..Len(registry) |->
        [registry[slot] EXCEPT !.value = IntSample(registry[slot].name)]]

SampledFloats(registry) ==
    [slot \in 1..Len(registry) |->
        [registry[slot] EXCEPT !.value = FloatSample(registry[slot].name)]]

\* The senders update the signals through the slots handed out to them.
UpdateSignals ==
    /\ integersRegistry_' = SampledInts(integersRegistry_)
    /\ floatsRegistry_' = SampledFloats(floatsRegistry_)
    /\ <<integersRegistry_, floatsRegistry_>>' # <<integersRegistry_, floatsRegistry_>>
    /\ UNCHANGED <<constantsRegistry_, isRegisteringAvailable_,
                   isInitialized_, flows_, recordedBytes_, recordedBytesLimits_,
                   recordedBytesDataLine_, headerSize_, integerSectionSize_,
                   floatSectionSize_, timeUnitInv_, minBufferSize, snapshots>>

\* TelemetryRecorder::initialize: the code returned.
InitializeCode(isInitialized) ==
    IF isInitialized THEN ERROR_INIT_FAILED ELSE SUCCESS

\* TelemetryRecorder::initialize(telemetryData, timeUnit)
Initialize(timeUnit) ==
    LET code == InitializeCode(isInitialized_)
        registered == RegisterConstant(constantsRegistry_, isRegisteringAvailable_,
                                       TIME_UNIT, FormatTimeUnit(timeUnit))
        intSize == SectionSize(integersRegistry_)
        floatSize == SectionSize(floatsRegistry_)
        dataLine == DataLineSize(intSize, floatSize)
        header == FormatHeader(registered.constants, integersRegistry_, floatsRegistry_)
        chunk == CreateNewChunk(<<>>, Len(header), dataLine, minBufferSize)
    IN  /\ timeUnitInv_' = TimeUnitInverse(timeUnit)
        /\ constantsRegistry_' = registered.constants
        /\ IF code = SUCCESS
           THEN /\ integerSectionSize_' = intSize
                /\ floatSectionSize_' = floatSize
                /\ recordedBytesDataLine_' = dataLine
                /\ isRegisteringAvailable_' = FALSE      \* formatHeader
                /\ headerSize_' = Len(header)
                /\ recordedBytesLimits_' = chunk.recordedBytesLimits
                /\ flows_' = [chunk.flows EXCEPT ![1] = DeviceWrite(chunk.flows[1], header)]
                /\ recordedBytes_' = Len(header)
                /\ isInitialized_' = TRUE
                /\ snapshots' = <<>>
           ELSE UNCHANGED <<integerSectionSize_, floatSectionSize_,
                            recordedBytesDataLine_, isRegisteringAvailable_,
                            headerSize_, recordedBytesLimits_, flows_,
                            recordedBytes_, isInitialized_, snapshots>>
        /\ UNCHANGED <<integersRegistry_, floatsRegistry_, minBufferSize>>

\* TelemetryRecorder::flushDataSnapshot(timestamp). The recorder was
\* initialized at least once (flows_.back() exists); the engine hands
\* increasing timestamps.
Flush(timestamp) ==
    LET res == FlushDataSnapshot(flows_, recordedBytes_, recordedBytesLimits_,
                                 headerSize_, recordedBytesDataLine_, minBufferSize,
                                 timestamp, timeUnitInv_,
                                 integersRegistry_, floatsRegistry_)
    IN  /\ flows_ # <<>>
        /\ snapshots # <<>> => timestamp > snapshots[Len(snapshots)].timestamp
        /\ flows_' = res.flows
        /\ recordedBytesLimits_' = res.recordedBytesLimits
        /\ recordedBytes_' = res.recordedBytes
        /\ snapshots' = Append(snapshots, Snapshot(timestamp, timeUnitInv_,
                                                   integersRegistry_, floatsRegistry_))
            /\ UNCHANGED <<constantsRegistry_, integersRegistry_, floatsRegistry_,
                       isRegisteringAvailable_, isInitialized_,
                       recordedBytesDataLine_, headerSize_, integerSectionSize_,
                       floatSectionSize_, timeUnitInv_, minBufferSize>>

\* Variant of reset that drops the chunks.
ResetFlowsReleasing(flows) == <<>>

\* reset: flows_ afterwards, the last chunk closed and every chunk kept.
ResetFlows(flows) == CloseLast(flows)

\* TelemetryRecorder::reset()
Reset ==
    /\ flows_' = ResetFlows(flows_)
    /\ isInitialized_' = FALSE
    /\ UNCHANGED <<constantsRegistry_, integersRegistry_, floatsRegistry_,
                   isRegisteringAvailable_, recordedBytes_,
                   recordedBytesLimits_, recordedBytesDataLine_, headerSize_,
                   integerSectionSize_, floatSectionSize_, timeUnitInv_,
                   minBufferSize, snapshots>>

\* The cursors of the flows set to `cursors`.
WithCursors(flows, cursors) ==
    [i \in 1..Len(flows) |-> [flows[i] EXCEPT !.currentPos = cursors[i]]]

\* Variant of writeLog that leaves every cursor at the start of its chunk.
WriteLogCursorsRewound(flows) == [i \in 1..Len(flows) |-> 0]

\* writeLog: the cursor of every chunk on return (flow.seek(pos_old)).
WriteLogCursors(flows) == [i \in 1..Len(flows) |-> flows[i].currentPos]

\* TelemetryRecorder::writeLog(filename); canOpen: the file can be created.
\* The file written holds WriteLogBytes(flows_).
WriteLog(canOpen) ==
    /\ flows_' = IF canOpen THEN WithCursors(flows_, WriteLogCursors(flows_)) ELSE flows_
    /\ UNCHANGED <<constantsRegistry_, integersRegistry_, floatsRegistry_,
                   isRegisteringAvailable_, isInitialized_,
                   recordedBytes_, recordedBytesLimits_,
                   recordedBytesDataLine_, headerSize_, integerSectionSize_,
                   floatSectionSize_, timeUnitInv_, minBufferSize, snapshots>>

\* TelemetryRecorder::getLog(logData); logData receives GetLog(flows_, ...).
GetLogCall ==
    /\ flows_' = WithCursors(flows_, ParseCursors(flows_))
    /\ UNCHANGED <<constantsRegistry_, integersRegistry_, floatsRegistry_,
                   isRegisteringAvailable_, isInitialized_,
                   recordedBytes_, recordedBytesLimits_, recordedBytesDataLine_,
                   headerSize_, integerSectionSize_, floatSectionSize_,
                   timeUnitInv_, minBufferSize, snapshots>>

\* The files handed to readLog: no file, or the file writeLog makes of the
\* chunks.
LogFiles == {NoFile, WriteLogBytes(flows_)}

\* TelemetryRecorder::readLog(filename, logData); logData receives ReadLog(file).
ReadLogCall(file) ==
    /\ ReadLogCode(file) \in {SUCCESS, ERROR_BAD_INPUT}
    /\ UNCHANGED <<constantsRegistry_, integersRegistry_, floatsRegistry_,
                   isRegisteringAvailable_, isInitialized_,
                   flows_, recordedBytes_, recordedBytesLimits_,
                   recordedBytesDataLine_, headerSize_, integerSectionSize_,
                   floatSectionSize_, timeUnitInv_, minBufferSize, snapshots>>

-----------------------------------------------------------------------------
(* Log files read back by readLog *)

\* The session the log files come from: one integer and one float signal, a
\* time unit of 1e-3, a row at each of the first RecordedRows timestamps.
RecordedIntegers == <<[name |-> NameAX, value |-> IntSample(NameAX)]>>
RecordedFloats == <<[name |-> NameAX, value |-> FloatSample(NameAX)]>>
RecordedTimeUnit == [m |-> 1, k |-> 3]
RecordedTimestamps == <<1500, 2600, 3700>>

\* The constants of the session: those registered before initialize, then
\* the time unit registered by initialize.
RecordedConstants(registered) ==
    RegisterConstant(registered, TRUE, TIME_UNIT,
                     FormatTimeUnit(RecordedTimeUnit)).constants

\* The header initialize writes for the session.
RecordedHeader(registered) ==
    FormatHeader(RecordedConstants(registered), RecordedIntegers, RecordedFloats)

\* The file writeLog makes of the session: the header, then the rows.
RecordedLog(registered) ==
    RecordedHeader(registered)
    \o Concat([j \in 1..RecordedRows |->
                  Concat(DataLineWrites(RecordedTimestamps[j],
                                        TimeUnitInverse(RecordedTimeUnit),
                                        RecordedIntegers, RecordedFloats))])

\* A log file whose leading version flag is `version`.
WithVersion(file, version) ==
    Int32Word(version) \o Slice(file, SizeOfInt32 + 1, Len(file) + 1)

\* A log file cut after its first n bytes.
Truncated(file, n) == Slice(file, 1, Min(n, Len(file)) + 1)

\* Versions that are not TELEMETRY_VERSION: the next one, one with the same
\* low byte, zero and a negative one.
UnsupportedVersions ==
    {TELEMETRY_VERSION + 1, TELEMETRY_VERSION + 256, 0, -1}

\* The constants registered before initialize in the sessions read back:
\* none; "kp" = "1.5"; then also "a.x" = "a=b"; a key that holds the
\* delimiter, "k=p" = "1.5"; a value that holds START_LINE_TOKEN.
RegisteredConstants ==
    LET kp == <<107, 112>>
        number == <<49, 46, 53>>
    IN  {<<>>,
         <<[key |-> kp, value |-> number]>>,
         <<[key |-> kp, value |-> number], [key |-> NameAX, value |-> <<97, 61, 98>>]>>,
         <<[key |-> <<107, 61, 112>>, value |-> number]>>,
         <<[key |-> kp, value |-> <<120>> \o START_LINE_TOKEN \o <<121>>]>>}

\* The constants formatHeader writes in the header of the session: the
\* registered ones, then the numbers of integer and float columns.
HeaderConstants(registered) ==
    RecordedConstants(registered)
    \o <<[key |-> NUM_INTS, value |-> to_string(Len(RecordedIntegers) + 1)],
         [key |-> NUM_FLOATS, value |-> to_string(Len(RecordedFloats))]>>

\* The bytes of the log of a session with the constants `registered`,
\* overwritten with the version flag `version` and cut after `length` bytes.
FileBytes(registered, version, length) ==
    Truncated(WithVersion(RecordedLog(registered), version), length)

\* The files handed to readLog, each with the way it was made and its bytes:
\* a file that cannot be opened, the log of the session without registered
\* constants with every version flag and cut at every length, and the whole
\* logs of the sessions with registered constants.
Filenames ==
    LET made(registered, version, length) ==
            [canOpen |-> TRUE, registered |-> registered, version |-> version,
             length |-> length, bytes |-> FileBytes(registered, version, length)]
    IN  {[canOpen |-> FALSE, registered |-> <<>>, version |-> TELEMETRY_VERSION,
          length |-> 0, bytes |-> NoFile]}
        \cup {made(<<>>, version, length) :
                 version \in {TELEMETRY_VERSION} \cup UnsupportedVersions,
                 length \in 0..Len(RecordedLog(<<>>))}
        \cup {made(registered, TELEMETRY_VERSION, Len(RecordedLog(registered))) :
                 registered \in RegisteredConstants}

\* readLog was not called yet.
NotRead == [code |-> "", logData |-> EmptyLogData]

\* No file is read back.
InitReader ==
    /\ filename = [canOpen |-> FALSE, registered |-> <<>>,
                   version |-> TELEMETRY_VERSION, length |-> 0, bytes |-> NoFile]
    /\ readLogResult = NotRead

\* readLog of a file with a whole header: numData, the number of rows
\* parseLogDataRaw allocates for the stream before it reads the rows.
ReadLogNumData(file) ==
    LET header == ReadLogHeader(file)
        headerBuffer == header.headerBuffer
        integerSectionSize ==
            (EntryCount(headerBuffer[Len(headerBuffer) - 1]) - 1) * SizeOfInt64
        floatSectionSize == EntryCount(headerBuffer[Len(headerBuffer)]) * SizeOfInt64
        device == FileDevice(file)
        bytesAvailable == device.size - ParseHeader(device, header.pos).pos
    IN  bytesAvailable
            \div (Len(START_LINE_TOKEN) + SizeOfInt64 + integerSectionSize
                      + floatSectionSize)

\* readLog: the outcomes of a call. A row read beyond the rows allocated is
\* written outside of the matrices: the call goes on with the row that
\* ReadLog returns, or is ended by a fault.
ReadLogOutcomes(file) ==
    UNION {IF /\ read.code = SUCCESS
              /\ Len(read.logData.timestamps) > ReadLogNumData(file)
           THEN {read, [code |-> ABORTED, logData |-> EmptyLogData]}
           ELSE {read} : read \in {ReadLog(file)}}

\* TelemetryRecorder::readLog(filename, logData) on a file of Filenames.
ReadLogFile ==
    /\ readLogResult = NotRead
    /\ readLogResult' \in ReadLogOutcomes(filename.bytes)
    /\ UNCHANGED filename

-----------------------------------------------------------------------------
(* Floating-point values: a rational <<n, d>> in lowest terms with d > 0,   *)
(* <<1, 0>> and <<-1, 0>> for the infinities, <<0, 0>> for NaN. Rounding and *)
(* the sign of zero are not modelled.                                        *)

NaN == <<0, 0>>
INF == <<1, 0>>
Zero == <<0, 1>>
One == <<1, 1>>

RECURSIVE GCD(_, _)
GCD(a, b) == IF b = 0 THEN a ELSE GCD(b, a % b)

AbsInt(n) == IF n < 0 THEN -n ELSE n

Sign(n) == IF n < 0 THEN -1 ELSE IF n > 0 THEN 1 ELSE 0

\* n / d in lowest terms, d >= 0.
Ratio(n, d) ==
    IF d = 0 THEN <<Sign(n), 0>>
    ELSE LET g == GCD(AbsInt(n), d) IN <<n \div g, d \div g>>

\* std::isnan
IsNaN(x) == x = NaN

IsFinite(x) == x[2] # 0

Mul(a, b) == Ratio(a[1] * b[1], a[2] * b[2])

\* 1 / a
Inv(a) == IF a[1] < 0 THEN <<-a[2], -a[1]>> ELSE <<a[2], a[1]>>

Div(a, b) == Mul(a, Inv(b))

Neg(a) == <<-a[1], a[2]>>

Add(a, b) ==
    IF IsFinite(a) /\ IsFinite(b) THEN Ratio(a[1] * b[2] + b[1] * a[2], a[2] * b[2])
    ELSE IF IsNaN(a) \/ IsNaN(b) THEN NaN
    ELSE IF IsFinite(b) THEN a
    ELSE IF IsFinite(a) THEN b
    ELSE IF a = b THEN a ELSE NaN

Sub(a, b) == Add(a, Neg(b))

Abs(a) == <<AbsInt(a[1]), a[2]>>

\* a < b: false when either is NaN.
Less(a, b) ==
    /\ ~IsNaN(a)
    /\ ~IsNaN(b)
    /\ a # b
    /\ a[1] * b[2] <= b[1] * a[2]
    /\ IsFinite(a) \/ IsFinite(b) \/ a[1] < b[1]

\* std::max(a, b) and std::min(a, b): the first argument unless the
\* comparison says otherwise.
StdMax(a, b) == IF Less(a, b) THEN b ELSE a
StdMin(a, b) == IF Less(b, a) THEN b ELSE a

RECURSIVE IntPow(_, _)
IntPow(n, k) == IF k = 0 THEN 1 ELSE n * IntPow(n, k - 1)

\* std::pow(x, k) and std::pow(x, -k) for a natural k.
Pow(x, k) == Ratio(IntPow(x[1], k), IntPow(x[2], k))
PowNeg(x, k) == Inv(Pow(x, k))

\* The natural r with r^k = n; the inputs of the model make it exist.
RECURSIVE IntRootFrom(_, _, _)
IntRootFrom(n, k, r) == IF IntPow(r, k) >= n THEN r ELSE IntRootFrom(n, k, r + 1)

IntRoot(n, k) == CHOOSE r \in {IntRootFrom(n, k, 0)} : IntPow(r, k) = n

\* std::pow(x, -1.0 / k) for x >= 0.
PowInvRoot(x, k) ==
    IF IsNaN(x) THEN NaN
    ELSE IF x = INF THEN Zero
    ELSE Inv(<<IntRoot(x[1], k), IntRoot(x[2], k)>>)

-----------------------------------------------------------------------------
(* States of the system: vectors of floating-point values *)

VectorSum(a, b) == [i \in 1..Len(a) |-> Add(a[i], b[i])]

\* state_t::difference on a vector space
VectorDifference(a, b) == [i \in 1..Len(a) |-> Sub(a[i], b[i])]

VectorQuotient(a, b) == [i \in 1..Len(a) |-> Div(a[i], b[i])]

VectorZero(a) == [i \in 1..Len(a) |-> Zero]

\* The greatest of the values that are not NaN, zero when all are.
RECURSIVE GreatestAbs(_, _, _)
GreatestAbs(v, i, acc) ==
    IF i > Len(v) THEN acc
    ELSE GreatestAbs(v, i + 1, IF Less(acc, Abs(v[i])) THEN Abs(v[i]) ELSE acc)

\* state_t::normInf: the values the reduction can return. With no NaN it is
\* the greatest absolute value, with only NaN it is NaN; with some NaN the
\* order of the reduction decides between the two.
NormInf(v) ==
    IF \A i \in 1..Len(v) : ~IsNaN(v[i]) THEN {GreatestAbs(v, 1, Zero)}
    ELSE IF \A i \in 1..Len(v) : IsNaN(v[i]) THEN {NaN}
    ELSE {NaN, GreatestAbs(v, 1, Zero)}

-----------------------------------------------------------------------------
(* RungeKuttaDOPRIStepper *)

\* Machine epsilon, scaled to 2^-30; tolerances are only compared with it.
EPS == <<1, 1073741824>>

SAFETY == <<9, 10>>
MIN_FACTOR == <<1, 5>>
MAX_FACTOR == <<5, 1>>
STEPPER_ORDER == 5

\* Tolerances given to the constructor: zero, not above EPS, and one.
Tolerances == {Zero, EPS, One}

\* Step sizes proposed by the integration loop.
StepSizes == {<<1, 1000>>}

StartState == <<One, One>>

\* One try of a step: the candidate solution and the error between it and
\* the alternative solution (initialState + stateIncrement_).
Try(solution_, error) ==
    [initialState |-> StartState,
     solution |-> solution_,
     stateIncrement |-> VectorDifference(VectorDifference(solution_, error), StartState)]

Unit == <<One, One>>
Large == <<(<<256, 1>>), (<<256, 1>>)>>
Small == <<(<<1, 256>>), (<<1, 256>>)>>

Steps ==
    {Try(Unit, <<Zero, Zero>>),                       \* no error
     Try(Unit, <<(<<1, 32>>), Zero>>),                \* small enough to grow
     Try(Unit, <<(<<1, 7776>>), Zero>>),              \* below the floor of newError
     Try(Unit, <<(<<3, 4>>), (<<1, 32>>)>>),          \* accepted, dt kept
     Try(Unit, <<(<<59049, 100000>>), Zero>>),        \* SAFETY^5: accepted, dt kept
     Try(Unit, <<One, Zero>>),                        \* just rejected
     Try(Unit, <<(<<-8, 1>>), One>>),                 \* rejected
     Try(Unit, <<(<<125, 1>>), Zero>>),               \* rejected, smallest factor
     Try(Large, <<(<<8, 1>>), (<<8, 1>>)>>),          \* relative small, absolute large
     Try(Small, <<(<<1, 32>>), (<<1, 32>>)>>),        \* absolute small, relative large
     Try(<<Zero, One>>, <<Zero, One>>),               \* 0 / 0 in the relative error
     Try(<<Zero, One>>, <<One, Zero>>),               \* 1 / 0 in the relative error
     Try(Unit, <<NaN, NaN>>)}                         \* NaN slopes

\* computeError: the error between the solution and the alternative solution.
ErrorVector(initialState_, stateIncrement, solution_) ==
    VectorDifference(solution_, VectorSum(initialState_, stateIncrement))

\* Variant of errorAbsNorm in which a disabled criterion counts as zero.
ErrorAbsNormsDisabledAsZero(error, tolAbs) ==
    IF Less(EPS, tolAbs)
    THEN {Div(norm, tolAbs) : norm \in NormInf(error)}
    ELSE {Zero}

\* computeError: errorAbsNorm.
ErrorAbsNorms(error, tolAbs) ==
    IF Less(EPS, tolAbs)
    THEN {Div(norm, tolAbs) : norm \in NormInf(error)}
    ELSE {INF}

\* computeError: error_ after error_ /= scale_.
RescaledError(error, solution_) ==
    VectorQuotient(error, VectorDifference(solution_, VectorZero(solution_)))

\* computeError: errorRelNorm.
ErrorRelNorms(error, solution_, tolRel) ==
    IF Less(EPS, tolRel)
    THEN {Div(norm, tolRel) : norm \in NormInf(RescaledError(error, solution_))}
    ELSE {INF}

\* Variant of computeError that rescales the error before it takes the
\* absolute norm.
ComputeErrorRescaledFirst(initialState_, solution_, stateIncrement, tolAbs, tolRel) ==
    LET error == ErrorVector(initialState_, stateIncrement, solution_) IN
    {[errorAbsNorm |-> errorAbsNorm,
      errorRelNorm |-> errorRelNorm,
      error |-> StdMin(errorAbsNorm, errorRelNorm)] :
        errorAbsNorm \in ErrorAbsNorms(RescaledError(error, solution_), tolAbs),
        errorRelNorm \in ErrorRelNorms(error, solution_, tolRel)}

\* computeError: the norms and the error returned, for every outcome of the
\* reductions.
ComputeError(initialState_, solution_, stateIncrement, tolAbs, tolRel) ==
    LET error == ErrorVector(initialState_, stateIncrement, solution_) IN
    {[errorAbsNorm |-> errorAbsNorm,
      errorRelNorm |-> errorRelNorm,
      error |-> StdMin(errorAbsNorm, errorRelNorm)] :
        errorAbsNorm \in ErrorAbsNorms(error, tolAbs),
        errorRelNorm \in ErrorRelNorms(error, solution_, tolRel)}

\* Variant of adjustStepImpl that accepts an error of 1 and, on a rejection,
\* does not shrink dt.
AdjustStepImplLenient(error, dt_) ==
    IF IsNaN(error) THEN [dt |-> Mul(dt_, <<1, 10>>), accepted |-> FALSE]
    ELSE IF ~Less(One, error) THEN [dt |-> dt_, accepted |-> TRUE]
    ELSE [dt |-> dt_, accepted |-> FALSE]

\* Variant of adjustStepImpl that grows dt without the floor on newError.
AdjustStepImplUncapped(error, dt_) ==
    IF IsNaN(error)
    THEN [dt |-> Mul(dt_, <<1, 10>>), accepted |-> FALSE]
    ELSE IF Less(error, One)
    THEN IF Less(error, Pow(SAFETY, STEPPER_ORDER))
         THEN [dt |-> Mul(dt_, Mul(SAFETY, PowInvRoot(error, STEPPER_ORDER))),
               accepted |-> TRUE]
         ELSE [dt |-> dt_, accepted |-> TRUE]
    ELSE [dt |-> Mul(dt_, StdMax(Mul(SAFETY, PowInvRoot(error, STEPPER_ORDER - 2)),
                                 MIN_FACTOR)),
          accepted |-> FALSE]

\* Variant of adjustStepImpl that shrinks dt without the floor MIN_FACTOR.
AdjustStepImplUnfloored(error, dt_) ==
    IF IsNaN(error)
    THEN [dt |-> Mul(dt_, <<1, 10>>), accepted |-> FALSE]
    ELSE IF Less(error, One)
    THEN IF Less(error, Pow(SAFETY, STEPPER_ORDER))
         THEN LET newError ==
                      StdMax(error, PowNeg(Div(MAX_FACTOR, SAFETY), STEPPER_ORDER))
              IN  [dt |-> Mul(dt_, Mul(SAFETY, PowInvRoot(newError, STEPPER_ORDER))),
                   accepted |-> TRUE]
         ELSE [dt |-> dt_, accepted |-> TRUE]
    ELSE [dt |-> Mul(dt_, Mul(SAFETY, PowInvRoot(error, STEPPER_ORDER - 2))),
          accepted |-> FALSE]

\* adjustStepImpl: dt afterwards and the value returned.
AdjustStepImpl(error, dt_) ==
    IF IsNaN(error)
    THEN [dt |-> Mul(dt_, <<1, 10>>), accepted |-> FALSE]
    ELSE IF Less(error, One)
    THEN IF Less(error, Pow(SAFETY, STEPPER_ORDER))
         THEN LET newError ==
                      StdMax(error, PowNeg(Div(MAX_FACTOR, SAFETY), STEPPER_ORDER))
              IN  [dt |-> Mul(dt_, Mul(SAFETY, PowInvRoot(newError, STEPPER_ORDER))),
                   accepted |-> TRUE]
         ELSE [dt |-> dt_, accepted |-> TRUE]
    ELSE [dt |-> Mul(dt_, StdMax(Mul(SAFETY, PowInvRoot(error, STEPPER_ORDER - 2)),
                                 MIN_FACTOR)),
          accepted |-> FALSE]

NoStep ==
    [errorAbsNorm |-> Zero, errorRelNorm |-> Zero, error |-> Zero,
     accepted |-> FALSE, dtBefore |-> Zero]

\* RungeKuttaDOPRIStepper::RungeKuttaDOPRIStepper(f, robots, tolRel, tolAbs)
InitStepper(tolerancesRel, tolerancesAbs) ==
    /\ tolRel_ \in tolerancesRel
    /\ tolAbs_ \in tolerancesAbs
    /\ stateIncrement_ = <<Zero, Zero>>
    /\ initialState = StartState
    /\ solution = StartState
    /\ dt \in StepSizes
    /\ stage = "fresh"
    /\ lastStep = NoStep
    /\ nbSteps = 0

\* The stages of a try: the loop hands the state and the step size, the
\* stepper computes the slopes ki_ and the candidate solution.
ComputeStages(step) ==
    /\ stage # "staged"
    /\ nbSteps < MaxSteps
    /\ initialState' = step.initialState
    /\ solution' = step.solution
    /\ stateIncrement_' = step.stateIncrement
    /\ stage' = "staged"
    /\ UNCHANGED <<tolRel_, tolAbs_, dt, lastStep, nbSteps>>

\* RungeKuttaDOPRIStepper::adjustStep(initialState, solution, dt)
AdjustStep ==
    /\ stage = "staged"
    /\ \E errors \in ComputeError(initialState, solution, stateIncrement_,
                                  tolAbs_, tolRel_) :
          LET adjusted == AdjustStepImpl(errors.error, dt) IN
          /\ dt' = adjusted.dt
          /\ lastStep' = [errorAbsNorm |-> errors.errorAbsNorm,
                          errorRelNorm |-> errors.errorRelNorm,
                          error |-> errors.error,
                          accepted |-> adjusted.accepted,
                          dtBefore |-> dt]
    /\ stage' = "adjusted"
    /\ nbSteps' = nbSteps + 1
    /\ UNCHANGED <<tolRel_, tolAbs_, stateIncrement_, initialState, solution>>

-----------------------------------------------------------------------------
(* DistanceConstraint *)

\* The frames of the model, by index (getFrameId); index 0 is the universe.
ModelFrames == <<"universe", "A", "B">>

\* The names a constraint is built with: two frames of the model, or one
\* frame the model does not have.
FrameNames == {<<"A", "B">>, <<"A", "C">>}

Vec(x, y, z) == <<<<x, 1>>, <<y, 1>>, <<z, 1>>>>

\* pncData_ of a model of one joint (nv = 1), for each frame by index + 1:
\* the translation of oMf, the linear and angular velocity and the linear
\* acceleration in the world-aligned frame, and the linear rows of the frame
\* jacobian. B at rest at distance 1 of A; B circling A at distance 5; B
\* leaving A at distance 2; A and B at the same place.
Kinematics ==
    LET O == Vec(0, 0, 0)
        data(pA, pB, vB, wB, aB) ==
            [oMf |-> <<O, pA, pB>>, v |-> <<O, O, vB>>, w |-> <<O, O, wB>>,
             a |-> <<O, O, aB>>, J |-> <<O, O, vB>>]
    IN  {data(O, Vec(1, 0, 0), O, O, O),
         data(O, Vec(3, 4, 0), Vec(-4, 3, 0), Vec(0, 0, 1), O),
         data(O, Vec(0, 0, 2), Vec(0, 0, 1), O, Vec(0, 0, 1)),
         data(O, O, O, O, O)}

InitialKinematics == CHOOSE data \in Kinematics : data.oMf[3] = Vec(1, 0, 0)

\* The values a double that was never written may hold.
IndeterminateDoubles == {Zero, NaN, <<7, 1>>}

\* The arguments of setReferenceDistance.
ReferenceDistances == {<<-1, 1>>, Zero, <<2, 1>>}

\* Baumgarte gains of the constraint.
PositionGains == {Zero, <<100, 1>>}
VelocityGains == {<<20, 1>>}

\* a.dot(b)
Dot(a, b) == Add(Add(Mul(a[1], b[1]), Mul(a[2], b[2])), Mul(a[3], b[3]))

\* v.norm(); the placements of the model make the root exact.
Norm(v) ==
    LET squaredNorm == Dot(v, v) IN
    IF IsNaN(squaredNorm) THEN NaN
    ELSE <<IntRoot(squaredNorm[1], 2), IntRoot(squaredNorm[2], 2)>>

\* The norm of the difference of the translations of the two frames.
Distance(data, frameIndices) ==
    Norm(VectorDifference(data.oMf[frameIndices[1] + 1],
                          data.oMf[frameIndices[2] + 1]))

\* ::jiminy::getFrameIdx(model, frameName, frameIdx): the code and the index,
\* left as it was when the model has no such frame.
GetFrameIdx(frameName, frameIdx) ==
    IF \E i \in 1..Len(ModelFrames) : ModelFrames[i] = frameName
    THEN [code |-> SUCCESS,
          frameIdx |-> (CHOOSE i \in 1..Len(ModelFrames) : ModelFrames[i] = frameName) - 1]
    ELSE [code |-> ERROR_BAD_INPUT, frameIdx |-> frameIdx]

\* setReferenceDistance: the code returned.
SetReferenceDistanceCode(distanceRef) ==
    IF Less(distanceRef, Zero) THEN ERROR_BAD_INPUT ELSE SUCCESS

\* Variant of reset that leaves the reference distance as it was.
ResetOutcomeKeepingReference(model, frameNames, frameIndices, distanceRef, jacobian, drift, data) ==
    LET first == IF model = "alive" THEN GetFrameIdx(frameNames[1], frameIndices[1])
                 ELSE [code |-> ERROR_GENERIC, frameIdx |-> frameIndices[1]]
        second == IF first.code = SUCCESS THEN GetFrameIdx(frameNames[2], frameIndices[2])
                  ELSE [code |-> first.code, frameIdx |-> frameIndices[2]]
        indices == <<first.frameIdx, second.frameIdx>>
    IN  IF second.code = SUCCESS
        THEN [code |-> SUCCESS, frameIndices |-> indices, jacobian |-> <<Zero>>,
              drift |-> <<Zero>>, distanceRef |-> distanceRef]
        ELSE [code |-> second.code, frameIndices |-> indices, jacobian |-> jacobian,
              drift |-> drift, distanceRef |-> distanceRef]

\* reset: the code returned and the fields of the constraint afterwards.
ResetOutcome(model, frameNames, frameIndices, distanceRef, jacobian, drift, data) ==
    LET first == IF model = "alive" THEN GetFrameIdx(frameNames[1], frameIndices[1])
                 ELSE [code |-> ERROR_GENERIC, frameIdx |-> frameIndices[1]]
        second == IF first.code = SUCCESS THEN GetFrameIdx(frameNames[2], frameIndices[2])
                  ELSE [code |-> first.code, frameIdx |-> frameIndices[2]]
        indices == <<first.frameIdx, second.frameIdx>>
    IN  IF second.code = SUCCESS
        THEN [code |-> SUCCESS, frameIndices |-> indices, jacobian |-> <<Zero>>,
              drift |-> <<Zero>>, distanceRef |-> Distance(data, indices)]
        ELSE [code |-> second.code, frameIndices |-> indices, jacobian |-> jacobian,
              drift |-> drift, distanceRef |-> distanceRef]

\* computeJacobianAndDrift on a live model: jacobian_ and drift_ afterwards.
JacobianAndDrift(data, frameIndices, distanceRef, kp, kd) ==
    LET i0 == frameIndices[1] + 1
        i1 == frameIndices[2] + 1
        Cross(a, b) == <<Sub(Mul(a[2], b[3]), Mul(a[3], b[2])),
                         Sub(Mul(a[3], b[1]), Mul(a[1], b[3])),
                         Sub(Mul(a[1], b[2]), Mul(a[2], b[1]))>>
        deltaPosition == VectorDifference(data.oMf[i0], data.oMf[i1])
        deltaPositionNorm == Norm(deltaPosition)
        direction == [i \in 1..3 |-> Div(deltaPosition[i], deltaPositionNorm)]
        deltaVelocity == VectorDifference(data.v[i0], data.v[i1])
        acceleration0 == VectorSum(data.a[i0], Cross(data.w[i0], data.v[i0]))
        acceleration1 == VectorSum(data.a[i1], Cross(data.w[i1], data.v[i1]))
        deltaVelocityProj == Dot(deltaVelocity, direction)
        drift0 == Dot(direction, VectorDifference(acceleration0, acceleration1))
        drift1 == Add(drift0,
                      Div(Sub(Dot(deltaVelocity, deltaVelocity), Pow(deltaVelocityProj, 2)),
                          deltaPositionNorm))
    IN  [jacobian |-> <<Dot(direction, VectorDifference(data.J[i0], data.J[i1]))>>,
         drift |-> <<Add(drift1, Add(Mul(kp, Sub(deltaPositionNorm, distanceRef)),
                                     Mul(kd, deltaVelocityProj)))>>]

\* Variant of computeJacobianAndDrift that clears the drift when the
\* constraint is not attached.
ComputeOutcomesClearing(isAttached, model, data, frameIndices, distanceRef, kp, kd, jacobian, drift) ==
    IF ~isAttached
    THEN {[code |-> ERROR_GENERIC, jacobian |-> jacobian, drift |-> <<Zero>>]}
    ELSE {[code |-> SUCCESS,
           jacobian |-> JacobianAndDrift(data, frameIndices, distanceRef, kp, kd).jacobian,
           drift |-> JacobianAndDrift(data, frameIndices, distanceRef, kp, kd).drift]}

\* computeJacobianAndDrift: the outcomes of a call. The model is taken to
\* exist: with an expired handle the call reads through a null pointer, and
\* before the first reset it writes drift_[0] of an empty vector; such a call
\* is ended by a fault or returns with values that were never computed.
ComputeOutcomes(isAttached, model, data, frameIndices, distanceRef, kp, kd, jacobian, drift) ==
    IF ~isAttached
    THEN {[code |-> ERROR_GENERIC, jacobian |-> jacobian, drift |-> drift]}
    ELSE IF model # "alive" \/ drift = <<>>
    THEN {[code |-> ABORTED, jacobian |-> jacobian, drift |-> drift]}
         \cup {[code |-> SUCCESS, jacobian |-> <<value>>, drift |-> <<value>>] :
                 value \in IndeterminateDoubles}
    ELSE {[code |-> SUCCESS,
           jacobian |-> JacobianAndDrift(data, frameIndices, distanceRef, kp, kd).jacobian,
           drift |-> JacobianAndDrift(data, frameIndices, distanceRef, kp, kd).drift]}

\* The last call on the constraint and the code it returned.
Called(op, code) == [op |-> op, code |-> code]

\* The constraint after construction, not attached; the distance reference
\* was never written.
InitConstraint(frameNames, gainsKp, doubles) ==
    /\ model_ = "unset"
    /\ isAttached_ = FALSE
    /\ frameNames_ \in frameNames
    /\ frameIndices_ = <<0, 0>>
    /\ distanceRef_ \in doubles
    /\ jacobian_ = <<>>
    /\ drift_ = <<>>
    /\ kp_ \in gainsKp
    /\ kd_ \in VelocityGains
    /\ pncData = InitialKinematics
    /\ constraintCall = Called("DistanceConstraint", SUCCESS)
    /\ referenceConfigured = FALSE

\* The process goes on after a call unless the call ended it.
Running == constraintCall.code # ABORTED

\* AbstractConstraintBase::attach(model)
Attach ==
    /\ Running
    /\ IF isAttached_
       THEN /\ constraintCall' = Called("attach", ERROR_GENERIC)
            /\ UNCHANGED <<model_, isAttached_>>
       ELSE /\ model_' = "alive"
            /\ isAttached_' = TRUE
            /\ constraintCall' = Called("attach", SUCCESS)
    /\ UNCHANGED <<frameNames_, frameIndices_, distanceRef_, jacobian_, drift_,
                   kp_, kd_, pncData, referenceConfigured>>

\* AbstractConstraintBase::detach()
Detach ==
    /\ Running
    /\ model_' = "unset"
    /\ isAttached_' = FALSE
    /\ constraintCall' = Called("detach", SUCCESS)
    /\ UNCHANGED <<frameNames_, frameIndices_, distanceRef_, jacobian_, drift_,
                   kp_, kd_, pncData, referenceConfigured>>

\* The owner of the model releases it: the weak handle model_ expires.
ExpireModel ==
    /\ Running
    /\ model_ = "alive"
    /\ model_' = "expired"
    /\ UNCHANGED <<isAttached_, frameNames_, frameIndices_, distanceRef_,
                   jacobian_, drift_, kp_, kd_, pncData, constraintCall,
                   referenceConfigured>>

\* The engine updates the kinematics of the model.
UpdateKinematics(data) ==
    /\ Running
    /\ model_ = "alive"
    /\ pncData' = data
    /\ pncData' # pncData
    /\ UNCHANGED <<model_, isAttached_, frameNames_, frameIndices_, distanceRef_,
                   jacobian_, drift_, kp_, kd_, constraintCall,
                   referenceConfigured>>

\* DistanceConstraint::setReferenceDistance(distanceRef)
SetReferenceDistance(distanceRef) ==
    LET code == SetReferenceDistanceCode(distanceRef) IN
    /\ Running
    /\ distanceRef_' = IF code = SUCCESS THEN distanceRef ELSE distanceRef_
    /\ referenceConfigured' = (referenceConfigured \/ code = SUCCESS)
    /\ constraintCall' = Called("setReferenceDistance", code)
    /\ UNCHANGED <<model_, isAttached_, frameNames_, frameIndices_, jacobian_,
                   drift_, kp_, kd_, pncData>>

\* DistanceConstraint::reset(q, v)
ResetConstraint ==
    LET outcome == ResetOutcome(model_, frameNames_, frameIndices_, distanceRef_,
                                jacobian_, drift_, pncData) IN
    /\ Running
    /\ frameIndices_' = outcome.frameIndices
    /\ jacobian_' = outcome.jacobian
    /\ drift_' = outcome.drift
    /\ distanceRef_' = outcome.distanceRef
    /\ constraintCall' = Called("reset", outcome.code)
    /\ UNCHANGED <<model_, isAttached_, frameNames_, kp_, kd_, pncData,
                   referenceConfigured>>

\* DistanceConstraint::computeJacobianAndDrift(q, v)
ComputeJacobianAndDrift ==
    /\ Running
    /\ \E outcome \in ComputeOutcomes(isAttached_, model_, pncData, frameIndices_,
                                      distanceRef_, kp_, kd_, jacobian_, drift_) :
          /\ jacobian_' = outcome.jacobian
          /\ drift_' = outcome.drift
          /\ constraintCall' = Called("computeJacobianAndDrift", outcome.code)
    /\ UNCHANGED <<model_, isAttached_, frameNames_, frameIndices_, distanceRef_,
                   kp_, kd_, pncData, referenceConfigured>>

-----------------------------------------------------------------------------
(* AbstractController *)

\* The names and the values handed to registerConstant: two integers and a
\* character string ("1.5").
ConstantNames == {NameAX, NameBYY, <<107, 112>>}
ConstantValues ==
    {[isString |-> FALSE, number |-> -12, chars |-> <<>>],
     [isString |-> FALSE, number |-> 7, chars |-> <<>>],
     [isString |-> TRUE, number |-> 0, chars |-> <<49, 46, 53>>]}

\* to_string(value): std::to_string of an integer, the characters of a
\* character string.
Stringified(value) ==
    IF value.isString THEN value.chars
    ELSE IF value.number < 0 THEN <<45>> \o to_string(-value.number)
    ELSE to_string(value.number)

\* Variant of registerConstant that does not look for the name in the list.
RegisterConstantOutcomeUnchecked(isTelemetryConfigured, registeredConstants, fieldName, value) ==
    IF isTelemetryConfigured
    THEN [code |-> ERROR_INIT_FAILED, registeredConstants |-> registeredConstants]
    ELSE [code |-> SUCCESS,
          registeredConstants |-> Append(registeredConstants,
                                         [first |-> fieldName,
                                          second |-> Stringified(value)])]

\* AbstractController::registerConstant: the code returned and the list
\* afterwards.
RegisterConstantOutcome(isTelemetryConfigured, registeredConstants, fieldName, value) ==
    IF isTelemetryConfigured
    THEN [code |-> ERROR_INIT_FAILED, registeredConstants |-> registeredConstants]
    ELSE IF \E i \in 1..Len(registeredConstants) :
                registeredConstants[i].first = fieldName
    THEN [code |-> ERROR_BAD_INPUT, registeredConstants |-> registeredConstants]
    ELSE [code |-> SUCCESS,
          registeredConstants |-> Append(registeredConstants,
                                         [first |-> fieldName,
                                          second |-> Stringified(value)])]

\* The controller after construction.
InitController ==
    /\ isTelemetryConfigured_ = FALSE
    /\ registeredConstants_ = <<>>
    /\ registerConstantCode = SUCCESS

\* AbstractController::registerConstant(fieldName, value)
RegisterConstantCall(fieldName, value) ==
    LET outcome == RegisterConstantOutcome(isTelemetryConfigured_,
                                           registeredConstants_, fieldName, value) IN
    /\ registeredConstants_' = outcome.registeredConstants
    /\ registerConstantCode' = outcome.code
    /\ UNCHANGED isTelemetryConfigured_

\* AbstractController::configureTelemetry: the constants are handed to the
\* telemetry and the registration is closed.
ConfigureTelemetry ==
    /\ ~isTelemetryConfigured_
    /\ isTelemetryConfigured_' = TRUE
    /\ UNCHANGED <<registeredConstants_, registerConstantCode>>

-----------------------------------------------------------------------------
(* Specification of the telemetry *)

\* The telemetry after construction.
InitTelemetry ==
    /\ constantsRegistry_ = <<>>
    /\ integersRegistry_ = <<>>
    /\ floatsRegistry_ = <<>>
    /\ isRegisteringAvailable_ = TRUE
    /\ isInitialized_ = FALSE
    /\ flows_ = <<>>
    /\ recordedBytes_ = 0
    /\ recordedBytesLimits_ = 0
    /\ recordedBytesDataLine_ = 0
    /\ headerSize_ = 0
    /\ integerSectionSize_ = 0
    /\ floatSectionSize_ = 0
    /\ timeUnitInv_ = <<0, 1>>
    /\ snapshots = <<>>

\* The telemetry of an engine whose stepper takes no step.
Init ==
    /\ InitTelemetry
    /\ minBufferSize \in {SmallBufferSize, LargeBufferSize}
    /\ InitStepper({Zero}, {Zero})
    /\ InitReader
    /\ InitConstraint({<<"A", "B">>}, {Zero}, {Zero})
    /\ InitController

Next ==
    \/ \E name \in IntNames : RegisterVariableInt(name) /\ UNCHANGED <<stepperVars, readerVars, constraintVars, controllerVars>>
    \/ \E name \in FloatNames : RegisterVariableFloat(name) /\ UNCHANGED <<stepperVars, readerVars, constraintVars, controllerVars>>
    \/ UpdateSignals /\ UNCHANGED <<stepperVars, readerVars, constraintVars, controllerVars>>
    \/ \E timeUnit \in TimeUnits : Initialize(timeUnit) /\ UNCHANGED <<stepperVars, readerVars, constraintVars, controllerVars>>
    \/ \E timestamp \in Timestamps : Flush(timestamp) /\ UNCHANGED <<stepperVars, readerVars, constraintVars, controllerVars>>
    \/ Reset /\ UNCHANGED <<stepperVars, readerVars, constraintVars, controllerVars>>
    \/ \E canOpen \in BOOLEAN : WriteLog(canOpen) /\ UNCHANGED <<stepperVars, readerVars, constraintVars, controllerVars>>
    \/ GetLogCall /\ UNCHANGED <<stepperVars, readerVars, constraintVars, controllerVars>>
    \/ \E file \in LogFiles : ReadLogCall(file) /\ UNCHANGED <<stepperVars, readerVars, constraintVars, controllerVars>>

Spec == Init /\ [][Next]_vars

\* The stepper of an engine that records nothing.
StepperInit ==
    /\ InitTelemetry
    /\ minBufferSize = LargeBufferSize
    /\ InitStepper(Tolerances, Tolerances)
    /\ InitReader
    /\ InitConstraint({<<"A", "B">>}, {Zero}, {Zero})
    /\ InitController

StepperNext ==
    \/ \E step \in Steps : ComputeStages(step) /\ UNCHANGED <<telemetryVars, readerVars, constraintVars, controllerVars>>
    \/ AdjustStep /\ UNCHANGED <<telemetryVars, readerVars, constraintVars, controllerVars>>

StepperSpec == StepperInit /\ [][StepperNext]_vars

\* readLog on the files of Filenames, by a process that records nothing.
ReaderInit ==
    /\ InitTelemetry
    /\ minBufferSize = LargeBufferSize
    /\ InitStepper({Zero}, {Zero})
    /\ filename \in Filenames
    /\ readLogResult = NotRead
    /\ InitConstraint({<<"A", "B">>}, {Zero}, {Zero})
    /\ InitController

ReaderNext == ReadLogFile /\ UNCHANGED <<telemetryVars, stepperVars, constraintVars, controllerVars>>

ReaderSpec == ReaderInit /\ [][ReaderNext]_vars

\* A distance constraint, the model it is attached to and their callers, in
\* a process that records nothing.
ConstraintInit ==
    /\ InitTelemetry
    /\ minBufferSize = LargeBufferSize
    /\ InitStepper({Zero}, {Zero})
    /\ InitReader
    /\ InitConstraint(FrameNames, PositionGains, IndeterminateDoubles)
    /\ InitController

ConstraintNext ==
    \/ Attach /\ UNCHANGED <<telemetryVars, stepperVars, readerVars, controllerVars>>
    \/ Detach /\ UNCHANGED <<telemetryVars, stepperVars, readerVars, controllerVars>>
    \/ ExpireModel /\ UNCHANGED <<telemetryVars, stepperVars, readerVars, controllerVars>>
    \/ \E data \in Kinematics : UpdateKinematics(data) /\ UNCHANGED <<telemetryVars, stepperVars, readerVars, controllerVars>>
    \/ \E distanceRef \in ReferenceDistances : SetReferenceDistance(distanceRef) /\ UNCHANGED <<telemetryVars, stepperVars, readerVars, controllerVars>>
    \/ ResetConstraint /\ UNCHANGED <<telemetryVars, stepperVars, readerVars, controllerVars>>
    \/ ComputeJacobianAndDrift /\ UNCHANGED <<telemetryVars, stepperVars, readerVars, controllerVars>>

ConstraintSpec == ConstraintInit /\ [][ConstraintNext]_vars

\* A controller and its callers, in a process that records nothing.
ControllerInit ==
    /\ InitTelemetry
    /\ minBufferSize = LargeBufferSize
    /\ InitStepper({Zero}, {Zero})
    /\ InitReader
    /\ InitConstraint({<<"A", "B">>}, {Zero}, {Zero})
    /\ InitController

ControllerNext ==
    \/ \E fieldName \in ConstantNames, value \in ConstantValues : RegisterConstantCall(fieldName, value) /\ UNCHANGED <<telemetryVars, stepperVars, readerVars, constraintVars>>
    \/ ConfigureTelemetry /\ UNCHANGED <<telemetryVars, stepperVars, readerVars, constraintVars>>

ControllerSpec == ControllerInit /\ [][ControllerNext]_vars

-----------------------------------------------------------------------------
(* What the callers of the telemetry observe *)

\* The log getLog returns in the current state.
Log == GetLog(flows_, integerSectionSize_, floatSectionSize_, headerSize_)

\* The file writeLog makes in the current state.
File == WriteLogBytes(flows_)

\* The names of a registry, in the order of its entries.
Names(registry) == [i \in 1..Len(registry) |-> registry[i].name]

\* The step is a reset of an initialized recorder.
IsReset == isInitialized_ /\ ~isInitialized_'

\* The step is a successful initialize.
IsInitialize == ~isInitialized_ /\ isInitialized_'

\* The chunk `new` still holds all that the chunk `old` holds.
Retained(old, new) ==
    /\ new.size = old.size
    /\ Len(new.data) >= Len(old.data)
    /\ \A j \in 1..Len(old.data) : new.data[j] = old.data[j]

\* Every chunk of flows_ is still held after the step.
ChunksRetained ==
    /\ Len(flows_') >= Len(flows_)
    /\ \A i \in 1..Len(flows_) : Retained(flows_[i], flows_'[i])

-----------------------------------------------------------------------------
(* Properties of the telemetry *)

\* C1: after a successful initialize, whatever the row size (rows larger than
\* the minimum chunk size included), getLog after n appends returns exactly n
\* rows, the i-th holding the quantized time of the i-th append, then the
\* integer values, then the float values that were current at that append.
C1_EveryAppendIsARow ==
    LET log == Log IN
    isInitialized_ =>
        /\ log.timestamps = [j \in 1..Len(snapshots) |-> snapshots[j].time]
        /\ log.intData = [j \in 1..Len(snapshots) |-> snapshots[j].ints]
        /\ log.floatData = [j \in 1..Len(snapshots) |-> snapshots[j].floats]

C3_RoundTrip ==
    LET read == ReadLog(File)
        log == Log
    IN  flows_ # <<>> =>
            /\ read.code = SUCCESS
            /\ read.logData.version = log.version
            /\ read.logData.constants = log.constants
            /\ read.logData.fieldnames = log.fieldnames
            /\ read.logData.timestamps = log.timestamps
            /\ read.logData.intData = log.intData
            /\ read.logData.floatData = log.floatData

\* C3 witness: a session with integer and float signals whose rows span two
\* chunks, read back from the file.
C3_Witness ==
    /\ Len(flows_) >= 2
    /\ Len(integersRegistry_) = 2
    /\ Len(floatsRegistry_) = 1
    /\ LET logData == ReadLog(File).logData IN
       /\ Len(logData.timestamps) = 2
       /\ Len(logData.intData[2]) = 2
       /\ Len(logData.floatData[2]) = 1

\* C4 as stated: once the window is closed, every registerVariable, of a new
\* or of a registered name, returns ERROR_GENERIC and leaves the registry.
C4_EveryRegistrationFails ==
    ~isRegisteringAvailable_ =>
        /\ \A name \in IntNames :
              LET res == RegisterVariable(integersRegistry_, FALSE, name, 0) IN
              res.code = ERROR_GENERIC /\ res.registry = integersRegistry_
        /\ \A name \in FloatNames :
              LET res == RegisterVariable(floatsRegistry_, FALSE, name, ZeroWord) IN
              res.code = ERROR_GENERIC /\ res.registry = floatsRegistry_

\* The outcome of registerVariable once the window is closed: the registry is
\* left as it is; a registered name gets SUCCESS and its slot, a new name gets
\* ERROR_GENERIC and no slot.
ClosedRegistration(registry, name, default) ==
    LET res == RegisterVariable(registry, FALSE, name, default) IN
    /\ res.registry = registry
    /\ name \in {registry[i].name : i \in 1..Len(registry)} =>
          /\ res.code = SUCCESS
          /\ res.slot \in 1..Len(registry)
          /\ registry[res.slot].name = name
    /\ name \notin {registry[i].name : i \in 1..Len(registry)} =>
          /\ res.code = ERROR_GENERIC
          /\ res.slot = 0

\* C4, amended: once the window is closed, registerVariable never mutates the
\* registry; it returns ERROR_GENERIC for a new name, and SUCCESS with the
\* existing slot for a registered name.
C4_ClosedWindow ==
    ~isRegisteringAvailable_ =>
        /\ \A name \in IntNames : ClosedRegistration(integersRegistry_, name, 0)
        /\ \A name \in FloatNames : ClosedRegistration(floatsRegistry_, name, ZeroWord)

\* C4 witness: the window is closed, "a.x" is a registered integer and "b.yy"
\* is not: the first gets its slot, the second is refused.
C4_Witness ==
    /\ ~isRegisteringAvailable_
    /\ Names(integersRegistry_) = <<NameAX>>
    /\ RegisterVariable(integersRegistry_, isRegisteringAvailable_, NameAX, 0).code = SUCCESS
    /\ RegisterVariable(integersRegistry_, isRegisteringAvailable_, NameBYY, 0).code
           = ERROR_GENERIC

\* The outcome of registerVariable while the window is open: a registered
\* name gets SUCCESS and its slot and the registry is left as it is; a second
\* registration returns what the first one returned.
OpenRegistration(registry, name, default) ==
    LET first == RegisterVariable(registry, TRUE, name, default)
        second == RegisterVariable(first.registry, TRUE, name, default)
    IN  /\ first.code = SUCCESS
        /\ first.registry[first.slot].name = name
        /\ second.code = SUCCESS
        /\ second.slot = first.slot
        /\ second.registry = first.registry
        /\ name \in {registry[i].name : i \in 1..Len(registry)} =>
              first.registry = registry

\* C5: while the window is open, registering a name that exists returns
\* SUCCESS with the slot of the first registration and leaves the registry
\* (size, order, values) unchanged.
C5_Idempotent ==
    isRegisteringAvailable_ =>
        /\ \A name \in IntNames : OpenRegistration(integersRegistry_, name, 0)
        /\ \A name \in FloatNames : OpenRegistration(floatsRegistry_, name, ZeroWord)

\* C5 witness: the window is open and both integer names are registered, with
\* values written through their slots.
C5_Witness ==
    /\ isRegisteringAvailable_
    /\ Names(integersRegistry_) = <<NameBYY, NameAX>>
    /\ integersRegistry_[1].value = IntSample(NameBYY)
    /\ RegisterVariable(integersRegistry_, isRegisteringAvailable_, NameBYY, 0).slot = 1

\* No two entries of the registry have the same name.
NoDuplicate(registry) ==
    \A i, j \in 1..Len(registry) : registry[i].name = registry[j].name => i = j

\* The entries of the registry stay where they are in the step; new ones
\* come after them.
EntriesStay(registry, registryAfter) ==
    /\ Len(registryAfter) >= Len(registry)
    /\ \A i \in 1..Len(registry) : registryAfter[i].name = registry[i].name

\* A cell of a column holds a value of the signal of that name.
IntCellOf(cell, name) == cell \in {Int64Word(0), Int64Word(IntSample(name))}
FloatCellOf(cell, name) == cell \in {ZeroWord, FloatSample(name)}

\* The columns of the log are the time, the integers and the floats in the
\* order of their registries, in the header and in every row.
ColumnsInRegistrationOrder ==
    LET log == Log IN
    flows_ # <<>> =>
        /\ log.fieldnames
               = <<GLOBAL_TIME>> \o Names(integersRegistry_) \o Names(floatsRegistry_)
        /\ \A j \in 1..Len(log.timestamps) :
              /\ Len(log.intData[j]) = Len(integersRegistry_)
              /\ Len(log.floatData[j]) = Len(floatsRegistry_)
              /\ \A i \in 1..Len(integersRegistry_) :
                    IntCellOf(log.intData[j][i], integersRegistry_[i].name)
              /\ \A i \in 1..Len(floatsRegistry_) :
                    FloatCellOf(log.floatData[j][i], floatsRegistry_[i].name)

\* C6: a registry never holds two entries of the same name, its entries are
\* never removed or moved and new ones come last, and the recorder emits the
\* columns in the order of the registries.
C6_RegistryOrder ==
    /\ [](NoDuplicate(integersRegistry_) /\ NoDuplicate(floatsRegistry_)
          /\ ColumnsInRegistrationOrder)
    /\ [][EntriesStay(integersRegistry_, integersRegistry_')
          /\ EntriesStay(floatsRegistry_, floatsRegistry_')]_vars

\* C6 witness: two integers and a float were registered, "b.yy" first, and a
\* row was recorded with the values written through their slots.
C6_Witness ==
    /\ Names(integersRegistry_) = <<NameBYY, NameAX>>
    /\ Names(floatsRegistry_) = <<NameAX>>
    /\ LET log == Log IN
       /\ Len(log.timestamps) >= 1
       /\ log.intData[1] = <<Int64Word(IntSample(NameBYY)), Int64Word(IntSample(NameAX))>>
       /\ log.floatData[1] = <<FloatSample(NameAX)>>

\* C10 as stated: reset releases the chunks, and no other operation discards
\* a chunk.
C10_OnlyResetReleases ==
    [][/\ IsReset => flows_' = <<>>
       /\ ~IsReset => ChunksRetained]_vars

\* C10, amended: reset closes the last chunk, leaves the recorder
\* uninitialized and keeps every chunk, so that getLog still returns the rows
\* recorded before it; chunks are discarded by a successful initialize only.
C10_InitializeReleases ==
    [][/\ IsReset =>
             /\ ChunksRetained
             /\ Len(flows_') = Len(flows_)
             /\ flows_ # <<>> => ~flows_'[Len(flows_')].isOpen
       /\ ~ChunksRetained => IsInitialize]_vars

\* C10 witness: the recorder was reset and getLog still returns a row
\* recorded before the reset.
C10_Witness ==
    /\ ~isInitialized_
    /\ flows_ # <<>>
    /\ ~flows_[Len(flows_)].isOpen
    /\ Len(snapshots) = 1
    /\ Len(Log.timestamps) = 1

\* The step is a call of initialize with the time unit `timeUnit` that
\* returns an error code.
IsFailedInitialize(timeUnit) ==
    Initialize(timeUnit) /\ InitializeCode(isInitialized_) # SUCCESS

\* C11: whenever initialize returns an error code, whatever the state before
\* and the cause, the recorder is uninitialized afterwards.
C11_FailedInitializeUninitializes ==
    [][\A timeUnit \in TimeUnits :
           IsFailedInitialize(timeUnit) => ~isInitialized_']_vars

\* C12: initialize on an initialized recorder returns ERROR_INIT_FAILED and
\* has no effect: the chunks, the rows recorded, the time unit that quantizes
\* the rows appended afterwards and the registries are as before the call.
C12_RefusedInitializeHasNoEffect ==
    [][\A timeUnit \in TimeUnits :
           (isInitialized_ /\ Initialize(timeUnit)) =>
               /\ InitializeCode(isInitialized_) = ERROR_INIT_FAILED
               /\ flows_' = flows_
               /\ snapshots' = snapshots
               /\ timeUnitInv_' = timeUnitInv_
               /\ constantsRegistry_' = constantsRegistry_
               /\ integersRegistry_' = integersRegistry_
               /\ floatsRegistry_' = floatsRegistry_
               /\ isRegisteringAvailable_' = isRegisteringAvailable_]_vars

\* C13: readLog returns ERROR_BAD_INPUT when the file cannot be opened, when
\* the header ends before the START_DATA marker is complete, and when the
\* leading version is not TELEMETRY_VERSION, whatever the version and even
\* if the rest of the log is well formed.
C13_BadInputRefused ==
    (/\ readLogResult # NotRead
     /\ \/ ~filename.canOpen
        \/ filename.length < Len(RecordedHeader(filename.registered))
        \/ filename.version # TELEMETRY_VERSION)
    => readLogResult.code = ERROR_BAD_INPUT

\* C13 witness: readLog refused a whole, well formed log whose version flag
\* is TELEMETRY_VERSION + 1.
C13_Witness ==
    /\ filename.canOpen
    /\ filename.length = Len(RecordedLog(filename.registered))
    /\ filename.version = TELEMETRY_VERSION + 1
    /\ readLogResult.code = ERROR_BAD_INPUT

\* C19: whatever the keys and the values of the registered constants, the
\* constants parsed from the header of the log are the pairs written in it,
\* in the order of registration, no key or value cut or merged.
C19_ConstantsRoundTrip ==
    readLogResult.code = SUCCESS =>
        readLogResult.logData.constants = HeaderConstants(filename.registered)

\* C20: the number of rows read from a stream, a log file cut in the middle
\* of a row included, never exceeds the number allocated for it (the bytes
\* remaining after the header divided by the size of a row), and the log
\* returned holds exactly the rows read.
C20_RowsWithinAllocation ==
    readLogResult.code = SUCCESS =>
        /\ Len(readLogResult.logData.timestamps)
               <= ReadLogNumData(filename.bytes)
        /\ Len(readLogResult.logData.intData)
               = Len(readLogResult.logData.timestamps)
        /\ Len(readLogResult.logData.floatData)
               = Len(readLogResult.logData.timestamps)

\* The last chunk of the recorder.
LastFlow == flows_[Len(flows_)]

\* The step is a flushDataSnapshot.
IsFlush == \E timestamp \in Timestamps : Flush(timestamp)

\* C24: after a successful initialize and any number of appends, for every
\* row size, recordedBytes_ is the number of bytes used in the last chunk
\* and is not above its capacity recordedBytesLimits_, every chunk but the
\* last is filled to its capacity, and an append creates a chunk only when
\* the last one is filled to its capacity.
C24_ByteCounterTracksLastChunk ==
    /\ [](isInitialized_ =>
            /\ recordedBytes_ = LastFlow.currentPos
            /\ recordedBytesLimits_ = LastFlow.size
            /\ recordedBytes_ <= recordedBytesLimits_
            /\ \A i \in 1..(Len(flows_) - 1) : flows_[i].currentPos = flows_[i].size)
    /\ [][(isInitialized_ /\ IsFlush /\ Len(flows_') > Len(flows_))
              => LastFlow.currentPos = LastFlow.size]_vars

\* C25: flushDataSnapshot on a recorder that is not initialized, after a
\* reset and before the next successful initialize, adds no row, creates no
\* chunk and leaves the byte counter as it was.
C25_AppendUninitializedHasNoEffect ==
    [][(~isInitialized_ /\ IsFlush)
          => /\ flows_' = flows_
             /\ recordedBytes_' = recordedBytes_
             /\ recordedBytesLimits_' = recordedBytesLimits_]_vars

\* C26: getLog and writeLog leave the recorder as it was, the cursor of
\* every chunk included, so that the appends that follow write the same log
\* as without the call.
C26_GetLogAndWriteLogAreReadOnly ==
    [][(GetLogCall \/ \E canOpen \in BOOLEAN : WriteLog(canOpen))
          => UNCHANGED telemetryVars]_vars

\* C26 witness: getLog and writeLog are called on a recorder whose rows span
\* two chunks, each with its cursor after the bytes written, and leave the
\* cursors there.
C26_Witness ==
    /\ isInitialized_
    /\ Len(flows_) = 2
    /\ flows_[1].currentPos > headerSize_
    /\ flows_[2].currentPos > 0
    /\ Len(Log.timestamps) = 2
    /\ WithCursors(flows_, ParseCursors(flows_)) = flows_
    /\ WithCursors(flows_, WriteLogCursors(flows_)) = flows_

\* C27: the Global.Time.Unit constant of the header, returned as
\* logData.timeUnit, is the time unit by which the timestamps of the rows of
\* the log were quantized, also after a reset and an initialize with
\* another time unit.
C27_HeaderTimeUnitQuantizesRows ==
    LET log == Log IN
    isInitialized_ =>
        \A j \in 1..Min(Len(log.timestamps), Len(snapshots)) :
            log.timestamps[j]
                = Int64Word(QuantizedTime(snapshots[j].timestamp,
                                          TimeUnitInverse(log.timeUnit)))

-----------------------------------------------------------------------------
(* Properties of the distance constraint *)

\* The step is a reset that returns SUCCESS.
IsSuccessfulReset == ResetConstraint /\ constraintCall'.code = SUCCESS

\* C14: reset sets the reference distance to the current distance only if
\* none was configured: a value d >= 0 set by a successful
\* setReferenceDistance(d) before a successful reset is still the reference
\* distance after it.
C14_ResetKeepsConfiguredReference ==
    [][(referenceConfigured /\ IsSuccessfulReset)
          => distanceRef_' = distanceRef_]_vars

\* C15: after a successful reset with no reference distance configured, the
\* position residual at the reset state is zero: computeJacobianAndDrift on
\* the same placements sees distance - d_ref = 0, and the term
\* kp * (distance - d_ref) adds nothing to the drift.
C15_ResidualZeroAfterReset ==
    [][(~referenceConfigured /\ IsSuccessfulReset) =>
          LET distance == Distance(pncData', frameIndices_')
              computed == JacobianAndDrift(pncData', frameIndices_', distanceRef_',
                                           kp_', kd_')
              free == JacobianAndDrift(pncData', frameIndices_', distanceRef_',
                                       Zero, kd_')
          IN  /\ Sub(distance, distanceRef_') = Zero
              /\ computed.drift = free.drift]_vars

\* C15 witness: with a gain kp of 100 and no reference distance configured,
\* reset took the distance 2 of the frames as reference, and
\* computeJacobianAndDrift at the same placements got the drift 21 that the
\* accelerations and velocities alone give.
C15_Witness ==
    /\ ~referenceConfigured
    /\ kp_ = <<100, 1>>
    /\ constraintCall = Called("computeJacobianAndDrift", SUCCESS)
    /\ model_ = "alive"
    /\ Distance(pncData, frameIndices_) = <<2, 1>>
    /\ distanceRef_ = <<2, 1>>
    /\ drift_ = <<<<21, 1>>>>

\* C16: when the model handle has expired, reset and computeJacobianAndDrift
\* return ERROR_GENERIC and leave the reference distance, the frame indices,
\* the jacobian and the drift as they were.
C16_ExpiredModelIsReported ==
    [][(model_ = "expired" /\ (ResetConstraint \/ ComputeJacobianAndDrift)) =>
          /\ constraintCall'.code = ERROR_GENERIC
          /\ UNCHANGED <<distanceRef_, frameIndices_, jacobian_, drift_>>]_vars

\* C17: computeJacobianAndDrift, successful or failing, leaves the reference
\* distance and the frame indices as they were; when it fails because the
\* constraint is not attached it returns ERROR_GENERIC and leaves the
\* jacobian and the drift as they were too.
C17_EvaluationKeepsReferences ==
    [][ComputeJacobianAndDrift =>
          /\ UNCHANGED <<distanceRef_, frameIndices_>>
          /\ ~isAttached_ => /\ constraintCall'.code = ERROR_GENERIC
                             /\ UNCHANGED <<jacobian_, drift_>>]_vars

\* C17 witness: computeJacobianAndDrift was refused on a detached constraint
\* that still holds the jacobian, the drift and the reference distance of
\* an earlier evaluation.
C17_Witness ==
    /\ constraintCall = Called("computeJacobianAndDrift", ERROR_GENERIC)
    /\ ~isAttached_
    /\ jacobian_ = <<One>>
    /\ drift_ = <<<<21, 1>>>>
    /\ distanceRef_ = <<2, 1>>
    /\ frameIndices_ = <<1, 2>>

-----------------------------------------------------------------------------
(* Properties of the controller *)

\* The name is the first member of a pair of the list.
IsRegistered(fieldName) ==
    \E i \in 1..Len(registeredConstants_) : registeredConstants_[i].first = fieldName

\* C18: registerConstant appends (name, stringified value) at the end of the
\* list if and only if the telemetry is not configured and the name is not
\* in the list; once the telemetry is configured it returns
\* ERROR_INIT_FAILED, for a name already in the list before that it returns
\* ERROR_BAD_INPUT, and in both cases the list is as it was; the list never
\* holds a name twice and keeps the order of registration.
C18_RegisterConstant ==
    /\ [][\A fieldName \in ConstantNames, value \in ConstantValues :
             RegisterConstantCall(fieldName, value) =>
                 IF ~isTelemetryConfigured_ /\ ~IsRegistered(fieldName)
                 THEN /\ registerConstantCode' = SUCCESS
                      /\ Len(registeredConstants_') = Len(registeredConstants_) + 1
                      /\ SubSeq(registeredConstants_', 1, Len(registeredConstants_))
                             = registeredConstants_
                      /\ registeredConstants_'[Len(registeredConstants_')].first
                             = fieldName
                      /\ registeredConstants_'[Len(registeredConstants_')].second
                             = Stringified(value)
                 ELSE /\ registerConstantCode' =
                             (IF isTelemetryConfigured_ THEN ERROR_INIT_FAILED
                              ELSE ERROR_BAD_INPUT)
                      /\ registeredConstants_' = registeredConstants_]_vars
    /\ [](\A i, j \in 1..Len(registeredConstants_) :
             registeredConstants_[i].first = registeredConstants_[j].first => i = j)
    /\ [][/\ Len(registeredConstants_') >= Len(registeredConstants_)
          /\ SubSeq(registeredConstants_', 1, Len(registeredConstants_))
                 = registeredConstants_]_vars

\* C18 witness: "kp" = -12, then "a.x" = "1.5" were registered in that order,
\* the telemetry was configured, and a later registerConstant was refused
\* with ERROR_INIT_FAILED.
C18_Witness ==
    /\ registeredConstants_ =
           <<[first |-> <<107, 112>>, second |-> <<45, 49, 50>>],
             [first |-> NameAX, second |-> <<49, 46, 53>>]>>
    /\ isTelemetryConfigured_
    /\ registerConstantCode = ERROR_INIT_FAILED

-----------------------------------------------------------------------------
(* Properties of the stepper *)

\* The error between the solution and the alternative solution of the last
\* adjustStep.
LastErrorVector == ErrorVector(initialState, stateIncrement_, solution)

AbsEnabled == Less(EPS, tolAbs_)
RelEnabled == Less(EPS, tolRel_)

\* The step is a call of adjustStep.
IsAdjustStep == stage = "staged" /\ stage' = "adjusted"

\* C7: adjustStep accepts a step if and only if the error E is not NaN and
\* E < 1; when it rejects with dt > 0 the new dt is smaller than the old one;
\* the initial state and the candidate solution are left as they were.
C7_AcceptBelowOne ==
    /\ [](stage = "adjusted" =>
            /\ lastStep.accepted
                   <=> (~IsNaN(lastStep.error) /\ Less(lastStep.error, One))
            /\ (~lastStep.accepted /\ Less(Zero, lastStep.dtBefore))
                   => Less(dt, lastStep.dtBefore))
    /\ [][IsAdjustStep => initialState' = initialState /\ solution' = solution]_vars

\* C7 witness: a step whose error is exactly 1 was rejected and dt shrunk by
\* the safety factor.
C7_Witness ==
    /\ stage = "adjusted"
    /\ lastStep.error = One
    /\ ~lastStep.accepted
    /\ dt = Mul(lastStep.dtBefore, SAFETY)

\* C8: with at least one tolerance enabled, when the error vector is NaN
\* adjustStep rejects the step and sets dt to 0.1 * dt.
C8_NaNShrinksByTen ==
    (/\ stage = "adjusted"
     /\ AbsEnabled \/ RelEnabled
     /\ \A i \in 1..Len(LastErrorVector) : IsNaN(LastErrorVector[i]))
    => /\ ~lastStep.accepted
       /\ dt = Mul(lastStep.dtBefore, <<1, 10>>)

\* C9: a criterion whose tolerance is not above EPS counts as +infinity; the
\* absolute norm is taken from the error before it is rescaled, the relative
\* one after; E is the lesser of the two; the step is accepted exactly when
\* an enabled criterion is below 1.
C9_LesserOfTheCriteria ==
    stage = "adjusted" =>
        /\ lastStep.errorAbsNorm \in
               (IF AbsEnabled
                THEN {Div(norm, tolAbs_) : norm \in NormInf(LastErrorVector)}
                ELSE {INF})
        /\ lastStep.errorRelNorm \in
               (IF RelEnabled
                THEN {Div(norm, tolRel_) :
                        norm \in NormInf(VectorQuotient(LastErrorVector, solution))}
                ELSE {INF})
        /\ (~IsNaN(lastStep.errorAbsNorm) /\ ~IsNaN(lastStep.errorRelNorm)) =>
              /\ lastStep.error \in {lastStep.errorAbsNorm, lastStep.errorRelNorm}
              /\ ~Less(lastStep.errorAbsNorm, lastStep.error)
              /\ ~Less(lastStep.errorRelNorm, lastStep.error)
        /\ lastStep.accepted
               <=> \/ AbsEnabled /\ Less(lastStep.errorAbsNorm, One)
                   \/ RelEnabled /\ Less(lastStep.errorRelNorm, One)

\* C9 witness: both criteria enabled, the absolute one above 1 and the
\* relative one below: the step is accepted.
C9_Witness ==
    /\ stage = "adjusted"
    /\ AbsEnabled
    /\ RelEnabled
    /\ lastStep.errorAbsNorm = <<8, 1>>
    /\ lastStep.errorRelNorm = <<1, 32>>
    /\ lastStep.error = <<1, 32>>
    /\ lastStep.accepted

\* E of the last adjustStep, and dt before it.
LastError == lastStep.error
LastDt == lastStep.dtBefore

\* a <= b for values that are not NaN; finite values are compared after the
\* common factors of the numerators and of the denominators are taken out.
AtMost(a, b) ==
    /\ ~IsNaN(a)
    /\ ~IsNaN(b)
    /\ \/ a = b
       \/ IF IsFinite(a) /\ IsFinite(b)
          THEN LET g == GCD(AbsInt(a[1]), AbsInt(b[1]))
                   h == GCD(a[2], b[2])
               IN  (a[1] \div g) * (b[2] \div h) <= (b[1] \div g) * (a[2] \div h)
          ELSE ~Less(b, a)

\* C21: on an accepted step, dt <= dt' <= MAX_FACTOR * dt; dt' = dt when
\* SAFETY^p <= E < 1, and dt' = MAX_FACTOR * dt when
\* E <= (MAX_FACTOR / SAFETY)^(-p).
C21_AcceptedStepGrowsWithinMaxFactor ==
    (stage = "adjusted" /\ lastStep.accepted) =>
        /\ AtMost(LastDt, dt)
        /\ AtMost(dt, Mul(MAX_FACTOR, LastDt))
        /\ AtMost(Pow(SAFETY, STEPPER_ORDER), LastError) => dt = LastDt
        /\ AtMost(LastError, PowNeg(Div(MAX_FACTOR, SAFETY), STEPPER_ORDER))
               => dt = Mul(MAX_FACTOR, LastDt)

\* C21 witness: a step with an error below the floor was accepted and dt
\* multiplied by MAX_FACTOR, after a step that was accepted and kept dt.
C21_Witness ==
    /\ stage = "adjusted"
    /\ nbSteps = 2
    /\ lastStep.accepted
    /\ LastError = <<1, 7776>>
    /\ LastDt \in StepSizes
    /\ dt = Mul(MAX_FACTOR, LastDt)

\* C22 as stated: every rejection (E >= 1, +infinity or NaN) leaves
\* MIN_FACTOR * dt <= dt' <= SAFETY * dt.
C22_RejectionShrinksWithinMinFactor ==
    (stage = "adjusted" /\ ~lastStep.accepted) =>
        /\ AtMost(Mul(MIN_FACTOR, LastDt), dt)
        /\ AtMost(dt, Mul(SAFETY, LastDt))

\* C22 amended: a rejection with an error that is not NaN leaves
\* MIN_FACTOR * dt <= dt' <= SAFETY * dt; a rejection with a NaN error
\* leaves dt' = 0.1 * dt.
C22_RejectionShrinksUnlessNaN ==
    (stage = "adjusted" /\ ~lastStep.accepted) =>
        IF IsNaN(LastError)
        THEN dt = Mul(LastDt, <<1, 10>>)
        ELSE /\ AtMost(Mul(MIN_FACTOR, LastDt), dt)
             /\ AtMost(dt, Mul(SAFETY, LastDt))

\* C22 witness: a step with E = 8 was rejected and dt multiplied by
\* SAFETY / 2, between the two limits.
C22_Witness ==
    /\ stage = "adjusted"
    /\ ~lastStep.accepted
    /\ LastError = <<8, 1>>
    /\ dt = Mul(LastDt, <<9, 20>>)

\* C23: with both tolerances at or below EPS, the error of every adjustStep
\* is +infinity, the step is rejected and dt multiplied by MIN_FACTOR: after
\* n calls dt is MIN_FACTOR^n times the first step size.
C23_DisabledTolerancesRejectEveryStep ==
    (~AbsEnabled /\ ~RelEnabled) =>
        /\ \E dt0 \in StepSizes : dt = Mul(dt0, Pow(MIN_FACTOR, nbSteps))
        /\ stage = "adjusted" =>
              /\ LastError = INF
              /\ ~lastStep.accepted
              /\ dt = Mul(LastDt, MIN_FACTOR)

\* C23 witness: MaxSteps calls in a row with the tolerances 0 and EPS, the
\* last one on a step without any error.
C23_Witness ==
    /\ tolAbs_ = Zero
    /\ tolRel_ = EPS
    /\ stage = "adjusted"
    /\ nbSteps = MaxSteps
    /\ LastErrorVector = <<Zero, Zero>>
    /\ Less(dt, LastDt)

=============================================================================
